---- MODULE Spec2Model ----
(***************************************************************************)
(* Model of Hexagon/service: the dispatcher (lib/service.ts), the init     *)
(* system detector and the five manager implementations (systemd,          *)
(* sysvinit/docker-init, upstart, launchd, Windows SCM).                   *)
(*                                                                         *)
(* Text is modelled as a sequence of tokens (strings); a file path is a    *)
(* token sequence whose last "/" token separates directory and file name.  *)
(* Every call keeps a trace of what it did (spawned commands, file system  *)
(* operations, internal calls, printed lines) so that ordering claims are  *)
(* state predicates.                                                       *)
(***************************************************************************)
EXTENDS Integers, Sequences, FiniteSets, TLC

(* ---------------------------------------------------------------- bounds *)
\* Number of library/manager calls started in one behaviour.
MaxCalls == 2
\* Number of concurrent invocations the variables make room for.
NProcs == 2

Procs == 1..NProcs

(* ------------------------------------------------------------ JS values *)
\* JavaScript `undefined`; interpolated into a template string it reads "undefined".
Undef == "undefined"
\* JavaScript truthiness of a string-or-undefined value.
Truthy(v) == v # Undef /\ v # ""
\* a || b
OrElse(a, b) == IF Truthy(a) THEN a ELSE b
\* An optional string array: undefined, or an array of strings.
UndefArr == [isArr |-> FALSE, items |-> <<>>]
Arr(s) == [isArr |-> TRUE, items |-> s]
\* options.k for a key that may be missing from the object.
Get(o, k) == IF k \in DOMAIN o THEN o[k] ELSE Undef
GetArr(o, k) == IF k \in DOMAIN o THEN o[k] ELSE UndefArr

(* ---------------------------------------------------------- environment *)
\* Deno.execPath(), Deno.cwd(), $HOME and $USER of the running process.
ExecPath == "/usr/bin/deno"
ProcessCwd == "/work"
EnvHOME == "/home/u1"
EnvUSER == "u1"
\* What generateConfig reads from the process it runs in.
ProcessEnv == [home |-> EnvHOME, cwd |-> ProcessCwd, execPath |-> ExecPath]

(* ------------------------------------------------------- text utilities *)
RECURSIVE Join(_, _)
\* Array.prototype.join: the items separated by sep (empty array: empty text).
Join(items, sep) ==
  IF Len(items) = 0 THEN <<>>
  ELSE IF Len(items) = 1 THEN <<items[1]>>
  ELSE <<items[1], sep>> \o Join(Tail(items), sep)

\* `${arr?.join(sep)}`: an undefined array interpolates as "undefined".
JoinOpt(arr, sep) == IF arr.isArr THEN Join(arr.items, sep) ELSE <<Undef>>

RECURSIVE IndexOf(_, _, _)
\* Position of the first token equal to ph at or after i, 0 when there is none.
IndexOf(s, ph, i) ==
  IF i > Len(s) THEN 0
  ELSE IF s[i] = ph THEN i
  ELSE IndexOf(s, ph, i + 1)

\* String.prototype.replace(string, text): the first occurrence only.
ReplaceFirst(s, ph, rep) ==
  LET i == IndexOf(s, ph, 1)
  IN IF i = 0 THEN s
     ELSE SubSeq(s, 1, i - 1) \o rep \o SubSeq(s, i + 1, Len(s))

RECURSIVE ReplaceAll(_, _, _)
\* String.prototype.replace(/ph/g, text): every occurrence of the original text;
\* inserted text is not scanned again.
ReplaceAll(s, ph, rep) ==
  IF Len(s) = 0 THEN <<>>
  ELSE (IF s[1] = ph THEN rep ELSE <<s[1]>>) \o ReplaceAll(Tail(s), ph, rep)

RECURSIVE LastIndexOf(_, _, _)
LastIndexOf(s, t, i) ==
  IF i = 0 THEN 0
  ELSE IF s[i] = t THEN i
  ELSE LastIndexOf(s, t, i - 1)

\* path.dirname: everything before the last separator.
dirname(path) == SubSeq(path, 1, LastIndexOf(path, "/", Len(path)) - 1)

(* ------------------------------------------------------------- templates *)
\* A service configuration as the managers read it. cmd is an optional array of
\* words (the command line is the words joined by " "); path is an optional array
\* of directories; env is an optional array of entries, each entry the sequence
\* of its parts between "=" signs (<<"A", "1">> is "A=1", <<"A">> has no "=").
CmdText(cmd) == IF cmd.isArr THEN Join(cmd.items, " ") ELSE <<Undef>>
EnvText(entry) == Join(entry, "=")

serviceFileTemplate ==
  << "[Unit]\nDescription=", "{{name}}", " (Deno Service)\n\n[Service]\nExecStart=/bin/sh -c \"",
     "{{command}}", "\"\nRestart=always\nRestartSec=30\nEnvironment=", "{{path}}",
     "\nWorkingDirectory=", "{{workingDirectory}}", "\n", "{{extraServiceContent}}",
     "\n\n[Install]\nWantedBy=multi-user.target\n" >>

plistTemplate ==
  << "<?xml version=\"1.0\" encoding=\"UTF-8\"?>\n<!DOCTYPE plist PUBLIC \"-//Apple//DTD PLIST 1.0//EN\" \"http://www.apple.com/DTDs/PropertyList-1.0.dtd\">\n<plist version=\"1.0\">\n  <dict>\n    <key>Label</key>\n    <string>",
     "{{name}}", "</string>\n    <key>ProgramArguments</key>\n    <array>\n", "{{command}}",
     "    </array>\n    <key>EnvironmentVariables</key>\n    <dict>\n      <key>PATH</key>\n      <string>",
     "{{path}}", "</string>\n", "{{extraEnvs}}",
     "    </dict>\n    <key>WorkingDirectory</key>\n    <string>", "{{workingDirectory}}",
     "</string>\n    <key>KeepAlive</key>\n    <true/>\n  </dict>\n</plist>\n" >>

initScriptTemplate ==
  << "#!/bin/sh\n### BEGIN INIT INFO\n# Provides:          ", "{{name}}",
     "\n# Required-Start:    $remote_fs $syslog\n# Required-Stop:     $remote_fs $syslog\n# Default-Start:     2 3 4 5\n# Default-Stop:      0 1 6\n# Short-Description: ",
     "{{name}}", " (Deno Service)\n# Description:       Start ", "{{name}}",
     " service\n### END INIT INFO\n\nPATH=", "{{path}}", "\n", "{{extraEnvs}}",
     "\n\n# Change the next line to match your installation\nDENO_COMMAND=\"", "{{command}}",
     "\"\n\ncase \"$1\" in\n  start)\n    echo \"Starting ", "{{name}}",
     "...\"\n    $DENO_COMMAND &\n    echo $! > /var/run/", "{{name}}",
     ".pid\n    ;;\n  stop)\n    echo \"Stopping ", "{{name}}", "...\"\n    PID=$(cat /var/run/",
     "{{name}}", ".pid)\n    kill $PID\n    rm /var/run/", "{{name}}",
     ".pid\n    ;;\n  restart)\n    $0 stop\n    $0 start\n    ;;\n  status)\n    if [ -e /var/run/",
     "{{name}}", ".pid ]; then\n      echo \"", "{{name}}", " is running\"\n    else\n      echo \"",
     "{{name}}",
     " is not running\"\n    fi\n    ;;\n  *)\n    echo \"Usage: $0 {start|stop|restart|status}\"\n    exit 1\n    ;;\nesac\n\nexit 0\n" >>

upstartFileTemplate ==
  << "# ", "{{name}}", " (Deno Service)\n\ndescription \"", "{{name}}",
     " Deno Service\"\nauthor \"Service user\"\n\nstart on (filesystem and net-device-up IFACE!=lo)\nstop on runlevel [!2345]\n\nrespawn\nrespawn limit 10 5\n\nenv PATH=",
     "{{path}}", "\n\n# Change the next line to match your service installation\nenv SERVICE_COMMAND=\"",
     "{{command}}", "\"\n\nexec $SERVICE_COMMAND\n" >>

(* -------------------------------------------------------- generateConfig *)
\* SystemdService.generateConfig
SystemdGenerateConfig(env, options) ==
  LET denoPath == env.execPath
      defaultPath == <<"PATH=", denoPath, ":", options.home, "/.deno/bin">>
      envPath == IF options.path.isArr
                 THEN defaultPath \o <<":">> \o Join(options.path.items, ":")
                 ELSE defaultPath
      workingDirectory == IF Truthy(options.cwd) THEN options.cwd ELSE env.cwd
      c1 == ReplaceFirst(serviceFileTemplate, "{{name}}", <<options.name>>)
      c2 == ReplaceFirst(c1, "{{command}}", CmdText(options.cmd))
      c3 == ReplaceFirst(c2, "{{path}}", envPath)
      c4 == ReplaceFirst(c3, "{{workingDirectory}}", <<workingDirectory>>)
  IN IF options.system
     THEN ReplaceFirst(c4, "{{extraServiceContent}}", <<"User=", options.user>>)
     ELSE ReplaceFirst(c4, "{{extraServiceContent}}", <<>>)

RECURSIVE ProgramArguments(_)
\* one <string> element per word of cmd.split(" ")
ProgramArguments(words) ==
  IF Len(words) = 0 THEN <<>>
  ELSE <<"      <string>", words[1], "</string>\n">> \o ProgramArguments(Tail(words))

\* envSplit[i] of env.split("="): undefined past the last part
SplitPart(entry, i) == IF i <= Len(entry) THEN entry[i] ELSE Undef

RECURSIVE PlistExtraEnvs(_)
PlistExtraEnvs(envs) ==
  IF Len(envs) = 0 THEN <<>>
  ELSE <<"      <key>", SplitPart(envs[1], 1), "</key>\n      <string>",
         SplitPart(envs[1], 2), "</string>\n">> \o PlistExtraEnvs(Tail(envs))

\* LaunchdService.generateConfig (cmd is a string here: an undefined cmd makes
\* options.cmd.split throw, which no caller of this model does)
LaunchdGenerateConfig(env, options) ==
  LET denoPath == env.execPath
      commandArgs == options.cmd.items
      servicePath == JoinOpt(options.path, ":") \o <<":", denoPath, ":", options.home, "/.deno/bin">>
      workingDirectory == IF Truthy(options.cwd) THEN options.cwd ELSE env.cwd
      c1 == ReplaceAll(plistTemplate, "{{name}}", <<options.name>>)
      c2 == ReplaceAll(c1, "{{path}}", servicePath)
      c3 == ReplaceAll(c2, "{{workingDirectory}}", <<workingDirectory>>)
      c4 == ReplaceFirst(c3, "{{command}}", ProgramArguments(commandArgs))
  IN IF options.env.isArr /\ Len(options.env.items) > 0
     THEN ReplaceFirst(c4, "{{extraEnvs}}", PlistExtraEnvs(options.env.items))
     ELSE ReplaceFirst(c4, "{{extraEnvs}}", <<>>)

RECURSIVE InitExtraEnvs(_)
InitExtraEnvs(envs) ==
  IF Len(envs) = 0 THEN <<>>
  ELSE EnvText(envs[1]) \o <<"\n">> \o InitExtraEnvs(Tail(envs))

\* InitService.generateConfig
InitGenerateConfig(env, config) ==
  LET denoPath == env.execPath
      command == CmdText(config.cmd)
      servicePath == JoinOpt(config.path, ":") \o <<":", denoPath, ":", env.home, "/.deno/bin">>
      c1 == ReplaceAll(initScriptTemplate, "{{name}}", <<config.name>>)
      c2 == ReplaceFirst(c1, "{{command}}", command)
      c3 == ReplaceFirst(c2, "{{path}}", servicePath)
  IN IF config.env.isArr /\ Len(config.env.items) > 0
     THEN ReplaceFirst(c3, "{{extraEnvs}}", InitExtraEnvs(config.env.items))
     ELSE ReplaceFirst(c3, "{{extraEnvs}}", <<>>)

\* UpstartService.generateConfig
UpstartGenerateConfig(env, config) ==
  LET denoPath == env.execPath
      defaultPath == <<denoPath, ":", env.home, "/.deno/bin">>
      envPath == IF config.path.isArr
                 THEN defaultPath \o <<":">> \o Join(config.path.items, ":")
                 ELSE defaultPath
      c1 == ReplaceAll(upstartFileTemplate, "{{name}}", <<config.name>>)
      c2 == ReplaceFirst(c1, "{{command}}", CmdText(config.cmd))
  IN ReplaceFirst(c2, "{{path}}", envPath)

RECURSIVE BatchEnvLines(_)
BatchEnvLines(envs) ==
  IF Len(envs) = 0 THEN <<>>
  ELSE <<"set \"">> \o EnvText(envs[1]) \o <<"\"\n">> \o BatchEnvLines(Tail(envs))

\* WindowsService.generateConfig
WindowsGenerateConfig(env, options) ==
  LET denoPath == env.execPath
      defaultPath == <<"%PATH%;", denoPath, ";", options.home, "\\.deno\\bin">>
      envPath == IF options.path.isArr
                 THEN defaultPath \o <<";">> \o Join(options.path.items, ";")
                 ELSE defaultPath
      workingDirectory == IF Truthy(options.cwd) THEN options.cwd ELSE env.cwd
  IN <<"@echo off\n", "cd \"", workingDirectory, "\"\n", "set \"PATH=">> \o envPath \o <<"\"\n">>
     \o (IF options.env.isArr /\ Len(options.env.items) > 0
         THEN BatchEnvLines(options.env.items) ELSE <<>>)
     \o <<"\"", denoPath,
          "\" run -A --allow-ffi --unstable https://deno.land/x/windows_service@1.0.5/run.ts --serviceName ",
          options.name, " -- ">>
     \o CmdText(options.cmd) \o <<"\n">>

\* The manager classes and the generateConfig of each.
Managers == {"SystemdService", "InitService", "UpstartService", "LaunchdService", "WindowsService"}

ManagerGenerateConfig(env, mgr, config) ==
  CASE mgr = "SystemdService" -> SystemdGenerateConfig(env, config)
    [] mgr = "InitService" -> InitGenerateConfig(env, config)
    [] mgr = "UpstartService" -> UpstartGenerateConfig(env, config)
    [] mgr = "LaunchdService" -> LaunchdGenerateConfig(env, config)
    [] mgr = "WindowsService" -> WindowsGenerateConfig(env, config)

(* ----------------------------------------------------------------- state *)
VARIABLES
  fs,        \* the files that exist: path -> content
  dirs,      \* the directories that exist
  native,    \* what the native managers know: linger, loaded, enabled, active, scm
  runbooks,  \* the "sudo cp <temp> <destination>" steps printed so far
  pc,        \* per invocation: where it is
  call,      \* per invocation: arguments, locals, trace and result of the call
  ncalls     \* calls started so far

vars == <<fs, dirs, native, runbooks, pc, call, ncalls>>

\* One entry of a call's trace.
Ev(k, a) == [kind |-> k, arg |-> a]

NoResult == [kind |-> "none", code |-> 0, msg |-> <<>>, value |-> <<>>]
\* the call returned (value: the string generateConfig returns)
Returned(v) == [kind |-> "returned", code |-> 0, msg |-> <<>>, value |-> v]
\* throw new Error(msg)
Threw(m) == [kind |-> "threw", code |-> 0, msg |-> m, value |-> <<>>]
\* console.error(msg); Deno.exit(code)
Exited(c, m) == [kind |-> "exited", code |-> c, msg |-> m, value |-> <<>>]

\* The host of an invocation is left open.
NoHost == [os |-> "none", pid1 |-> <<>>, initctl |-> FALSE, etcInit |-> FALSE]

NoConfig ==
  [system |-> FALSE, name |-> Undef, home |-> Undef, cmd |-> UndefArr, user |-> Undef,
   cwd |-> Undef, path |-> UndefArr, env |-> UndefArr]

\* The argument record of a command line run; none for a library call.
NoArgs ==
  [positional |-> <<>>, help |-> FALSE, system |-> Undef, name |-> Undef, cmd |-> Undef,
   rest |-> UndefArr, cwd |-> Undef, user |-> Undef, home |-> Undef, force |-> Undef,
   path |-> UndefArr, env |-> UndefArr]

IdleCall ==
  [op |-> "none", entry |-> "none", args |-> NoArgs, options |-> NoConfig, onlyGenerate |-> FALSE,
   force |-> Undef, config |-> NoConfig, initSystem |-> Undef, mgr |-> Undef,
   content |-> <<>>, path |-> <<>>, pending |-> <<>>, host |-> NoHost,
   env |-> ProcessEnv,
   before |-> [fs |-> <<>>, dirs |-> {}, native |-> <<>>],
   trace |-> <<>>, result |-> NoResult]

(* ------------------------------------------------------------ file system *)
Exists(path) == path \in DOMAIN fs \/ path \in dirs

\* Deno.writeTextFile(path, content) succeeds only inside an existing directory.
CanWrite(path) == dirname(path) \in dirs

\* Mutant: a file that is already there is left as it is.
Written_KeepsExisting(f, path, content) ==
  [q \in (DOMAIN f) \cup {path} |-> IF q \in DOMAIN f THEN f[q] ELSE content]

Written(f, path, content) ==
  [q \in (DOMAIN f) \cup {path} |-> IF q = path THEN content ELSE f[q]]

\* Mutant: the file stays where it is.
Removed_Nothing(f, path) == f

Removed(f, path) == [q \in (DOMAIN f) \ {path} |-> f[q]]

\* Deno.mkdir(dir, {recursive: true})
MkdirP(d, dir) == d \cup {dir}

\* Deno.makeTempFile(): a fresh, empty file in the temporary directory.
TempDir == <<"/tmp">>
TempPath(n) == <<"/tmp", "/", "tmp" \o ToString(n)>>
IsTemp(path) == Len(path) = 3 /\ path[1] = "/tmp"

\* Outcome of a spawned command: exit status and captured stderr.
Stderr == {"access denied", "unit not found"}
CmdOutcomes ==
  {[success |-> TRUE, stderr |-> ""]} \cup {[success |-> FALSE, stderr |-> e] : e \in Stderr}

(* ---------------------------------------------------------- call endings *)
\* The call of invocation p ends with result res after the trace entries evs.
Finish(p, res, evs) ==
  /\ pc' = [pc EXCEPT ![p] = "done"]
  /\ call' = [call EXCEPT ![p].result = res, ![p].trace = @ \o evs]

\* Invocation p moves on to step next after the trace entries evs.
Goto(p, next, evs) ==
  /\ pc' = [pc EXCEPT ![p] = next]
  /\ call' = [call EXCEPT ![p].trace = @ \o evs]

(* --------------------------------------------------------- prepareConfig *)
\* lib/service.ts prepareConfig: defaults from the environment.
prepareConfig(options) ==
  [system |-> IF "system" \in DOMAIN options THEN options.system ELSE FALSE,
   name |-> OrElse(Get(options, "name"), "deno-service"),
   home |-> OrElse(Get(options, "home"), EnvHOME),
   cmd |-> GetArr(options, "cmd"),
   user |-> IF "user" \in DOMAIN options THEN OrElse(options.user, EnvUSER) ELSE Undef,
   cwd |-> IF "cwd" \in DOMAIN options THEN OrElse(options.cwd, ProcessCwd) ELSE Undef,
   path |-> GetArr(options, "path"),
   env |-> GetArr(options, "env")]

(* -------------------------------------------------------------- registry *)
\* serviceManager.register(...) calls at module load.
Registry ==
  [systemd |-> "SystemdService", sysvinit |-> "InitService",
   upstart |-> "UpstartService", launchd |-> "LaunchdService"]
   @@ ("docker-init" :> "InitService")

\* Mutant: an identifier without an implementation falls back to the init script manager.
ManagerFor_FallsBack(initSystem) ==
  IF initSystem \in DOMAIN Registry THEN Registry[initSystem] ELSE "InitService"

\* this.managers.get(initSystem)
ManagerFor(initSystem) ==
  IF initSystem \in DOMAIN Registry THEN Registry[initSystem] ELSE Undef

(* ------------------------------------------------------------- detection *)
MatchAt(text, sub, i) ==
  \A k \in 1..Len(sub) : i + k - 1 <= Len(text) /\ text[i + k - 1] = sub[k]

\* String.prototype.includes on texts spelled as sequences of characters.
Includes(text, sub) == \E i \in 1..(Len(text) + 1) : MatchAt(text, sub, i)

S_systemd == <<"s", "y", "s", "t", "e", "m", "d">>
S_init == <<"i", "n", "i", "t">>
S_openrc == <<"o", "p", "e", "n", "r", "c">>
S_docker_init == <<"d", "o", "c", "k", "e", "r", "-", "i", "n", "i", "t">>
S_runit == <<"r", "u", "n", "i", "t">>
\* PID-1 names that hold two of the patterns.
S_openrc_init == S_openrc \o <<"-">> \o S_init
S_systemd_init == S_systemd \o <<"-">> \o S_init

\* What a host answers to the detector: Deno.build.os, the text `ps -p 1 -o comm=`
\* prints, and whether /sbin/initctl is a file and /etc/init a directory.
Hosts ==
  {[os |-> "darwin", pid1 |-> <<>>, initctl |-> FALSE, etcInit |-> FALSE],
   [os |-> "windows", pid1 |-> <<>>, initctl |-> FALSE, etcInit |-> FALSE]}
  \cup
  {[os |-> "linux", pid1 |-> t, initctl |-> u, etcInit |-> u] :
     t \in {S_systemd, S_init, S_openrc, S_docker_init, S_runit, S_openrc_init, S_systemd_init},
     u \in {FALSE}}
  \cup
  {[os |-> "linux", pid1 |-> S_init, initctl |-> a, etcInit |-> b] :
     a \in BOOLEAN, b \in BOOLEAN}

\* Mutant: the "init" pattern is tried before the "systemd" pattern.
Classify_InitFirst(host) ==
  IF Includes(host.pid1, S_init)
    THEN (IF host.initctl /\ host.etcInit THEN "upstart" ELSE "sysvinit")
  ELSE IF Includes(host.pid1, S_systemd) THEN "systemd"
  ELSE IF Includes(host.pid1, S_openrc) THEN "openrc"
  ELSE Undef

\* detectInitSystem's classification of the ps output; Undef stands for the
\* "Unsupported init system." error.
Classify(host) ==
  IF Includes(host.pid1, S_systemd) THEN "systemd"
  ELSE IF Includes(host.pid1, S_init)
    THEN (IF host.initctl /\ host.etcInit THEN "upstart" ELSE "sysvinit")
  ELSE IF Includes(host.pid1, S_openrc) THEN "openrc"
  ELSE IF Includes(host.pid1, S_docker_init) THEN "dockerinit"
  ELSE Undef

(* ---------------------------------------------------------------- inputs *)
Names == {"svc"}
Cmd0 == Arr(<<"deno", "run">>)

\* Raw options of installService / generateConfig: as the CLI passes them (every
\* key present, unset values undefined) and as a library caller that leaves the
\* optional keys out.
InstallOptions ==
  {[system |-> s, name |-> n, cmd |-> Cmd0, cwd |-> Undef, user |-> Undef, home |-> Undef,
    path |-> UndefArr] : s \in BOOLEAN, n \in Names}
  \cup {[system |-> s, name |-> n, cmd |-> Cmd0] : s \in BOOLEAN, n \in Names}

\* Raw options of uninstallService.
UninstallOptions ==
  {[system |-> s, name |-> n, home |-> Undef] : s \in BOOLEAN, n \in Names}

\* Configs handed to a manager directly.
ManagerConfigs ==
  {[system |-> s, name |-> n, home |-> EnvHOME, cmd |-> Cmd0, user |-> u, cwd |-> Undef,
    path |-> UndefArr, env |-> UndefArr] :
     s \in BOOLEAN, n \in Names, u \in {Undef, "", EnvUSER}}

\* forceInitSystem values.
Forced ==
  {Undef, "", "systemd", "docker-init", "launchd", "windows", "openrc"}

(* ------------------------------------------------------------------ Init *)
EmptyFs == [q \in {} |-> <<>>]

SystemDirs ==
  {<<"/etc/systemd/system">>, <<"/etc/init.d">>, <<"/etc/init">>, <<"/Library/LaunchDaemons">>,
   TempDir}

UserDirs ==
  {<<EnvHOME, "/.config/systemd/user">>, <<EnvHOME, "/Library/LaunchAgents">>,
   <<EnvHOME, "/.service">>}

NativeInit == [linger |-> {}, loaded |-> {}, enabled |-> {}, active |-> {}, scm |-> {}]

\* No artifact is installed yet; the user's configuration directories either all
\* exist already or none does (each manager looks at its own directory only).
Init ==
  /\ fs = EmptyFs
  /\ dirs \in {SystemDirs, SystemDirs \cup UserDirs}
  /\ native = NativeInit
  /\ runbooks = {}
  /\ pc = [p \in Procs |-> "idle"]
  /\ call = [p \in Procs |-> IdleCall]
  /\ ncalls = 0

(* ----------------------------------------------------------- call entries *)
CanCall(p) == pc[p] \in {"idle", "done"} /\ ncalls < MaxCalls

NewCall(p, first, c) ==
  /\ pc' = [pc EXCEPT ![p] = first]
  /\ call' = [call EXCEPT ![p] =
                [c EXCEPT !.before = [fs |-> fs, dirs |-> dirs, native |-> native]]]
  /\ ncalls' = ncalls + 1
  /\ UNCHANGED <<fs, dirs, native, runbooks>>

\* A caller invokes installService(options, onlyGenerate, forceInitSystem).
CallInstallService(p) ==
  /\ CanCall(p)
  /\ \E o \in InstallOptions, og \in BOOLEAN, f \in Forced :
       NewCall(p, "installService",
               [IdleCall EXCEPT !.op = "install", !.entry = "service", !.options = o,
                                !.onlyGenerate = og, !.force = f])

\* A caller invokes uninstallService(options, forceInitSystem).
CallUninstallService(p) ==
  /\ CanCall(p)
  /\ \E o \in UninstallOptions, f \in Forced :
       NewCall(p, "uninstallService",
               [IdleCall EXCEPT !.op = "uninstall", !.entry = "service", !.options = o,
                                !.force = f])

\* A caller invokes generateConfig(options, forceInitSystem).
CallGenerateConfig(p) ==
  /\ CanCall(p)
  /\ \E o \in InstallOptions, f \in Forced :
       NewCall(p, "generateConfig",
               [IdleCall EXCEPT !.op = "generateConfig", !.entry = "service", !.options = o,
                                !.force = f])

\* A caller (a test, an embedding program) invokes a manager object directly.
CallManager(p) ==
  /\ CanCall(p)
  /\ \E m \in Managers, c \in ManagerConfigs, op \in {"install", "uninstall", "generateConfig"},
        og \in BOOLEAN :
       /\ op # "install" => ~og
       /\ NewCall(p, m \o "." \o op,
                  [IdleCall EXCEPT !.op = op, !.entry = "manager", !.options = c, !.config = c,
                                   !.onlyGenerate = og, !.mgr = m,
                                   !.trace = <<Ev("call", <<m, op>>)>>])

(* ------------------------------------------------------------- dispatcher *)
\* Mutant: the guard is missing.
ForceRejected_Never(forceInitSystem, onlyGenerate) == FALSE

\* installService's guard: a forced manager is refused for a real install.
ForceRejected(forceInitSystem, onlyGenerate) == Truthy(forceInitSystem) /\ ~onlyGenerate

\* Mutant: the defaults are written into the caller's options object.
AfterPrepare_FillsInPlace(p, method) ==
  /\ pc' = [pc EXCEPT ![p] = IF Truthy(call[p].force) THEN method ELSE "detectInitSystem"]
  /\ call' = [call EXCEPT ![p].options = prepareConfig(call[p].options),
                          ![p].config = prepareConfig(call[p].options),
                          ![p].initSystem = IF Truthy(call[p].force) THEN call[p].force ELSE @,
                          ![p].trace = @ \o <<Ev("call", <<"prepareConfig">>)>>]

\* The step after normalisation: the forced manager, or detection.
AfterPrepare(p, method) ==
  IF Truthy(call[p].force)
  THEN /\ pc' = [pc EXCEPT ![p] = method]
       /\ call' = [call EXCEPT ![p].config = prepareConfig(call[p].options),
                               ![p].initSystem = call[p].force,
                               ![p].trace = @ \o <<Ev("call", <<"prepareConfig">>)>>]
  ELSE /\ pc' = [pc EXCEPT ![p] = "detectInitSystem"]
       /\ call' = [call EXCEPT ![p].config = prepareConfig(call[p].options),
                               ![p].trace = @ \o <<Ev("call", <<"prepareConfig">>)>>]

\* installService(options, onlyGenerate, forceInitSystem)
InstallService(p) ==
  /\ pc[p] = "installService"
  /\ IF ForceRejected(call[p].force, call[p].onlyGenerate)
     THEN Finish(p, Threw(<<"Manually selecting an init system is not possible while installing.">>), <<>>)
     ELSE AfterPrepare(p, "ServiceManager.install")
  /\ UNCHANGED <<fs, dirs, native, runbooks, ncalls>>

\* uninstallService(options, forceInitSystem)
UninstallService(p) ==
  /\ pc[p] = "uninstallService"
  /\ AfterPrepare(p, "ServiceManager.uninstall")
  /\ UNCHANGED <<fs, dirs, native, runbooks, ncalls>>

\* generateConfig(options, forceInitSystem)
GenerateConfig(p) ==
  /\ pc[p] = "generateConfig"
  /\ AfterPrepare(p, "ServiceManager.generateConfig")
  /\ UNCHANGED <<fs, dirs, native, runbooks, ncalls>>

PsCommand == <<"ps", "-p", "1", "-o", "comm=">>

\* Mutant: the ps probe runs before the operating system is looked at.
DetectTrace_AlwaysProbes(host) ==
  <<Ev("call", <<"detectInitSystem">>), Ev("spawn", PsCommand)>>

\* What detectInitSystem does on a host: the probes it runs, in order.
DetectTrace(host) ==
  <<Ev("call", <<"detectInitSystem">>)>>
  \o (IF host.os \in {"darwin", "windows"} THEN <<>>
      ELSE <<Ev("spawn", PsCommand)>>
           \o (IF ~Includes(host.pid1, S_systemd) /\ Includes(host.pid1, S_init)
               THEN <<Ev("stat", <<"/sbin/initctl">>)>>
                    \o (IF host.initctl THEN <<Ev("stat", <<"/etc/init">>)>> ELSE <<>>)
               ELSE <<>>))

\* detectInitSystem(): Undef stands for the "Unsupported init system." error.
detectInitSystem(host) ==
  IF host.os = "darwin" THEN "launchd"
  ELSE IF host.os = "windows" THEN "windows"
  ELSE Classify(host)

\* The hosts invocation p may be running on: the one its scenario fixed, or any.
HostsOf(p) == IF call[p].host = NoHost THEN Hosts ELSE {call[p].host}

\* Mutant: the answer an earlier invocation got is used again, without a probe.
DetectInitSystem_ReusesEarlier(p) ==
  /\ pc[p] = "detectInitSystem"
  /\ LET earlier == {q \in Procs : q # p /\ call[q].initSystem # Undef}
     IN IF earlier # {}
        THEN \E q \in earlier :
               /\ pc' = [pc EXCEPT ![p] = "ServiceManager." \o call[p].op]
               /\ call' = [call EXCEPT ![p].initSystem = call[q].initSystem]
        ELSE \E host \in HostsOf(p) :
               IF detectInitSystem(host) = Undef
               THEN Finish(p, Threw(<<"Unsupported init system.">>), DetectTrace(host))
               ELSE /\ pc' = [pc EXCEPT ![p] = "ServiceManager." \o call[p].op]
                    /\ call' = [call EXCEPT ![p].initSystem = detectInitSystem(host),
                                            ![p].trace = @ \o DetectTrace(host)]
  /\ UNCHANGED <<fs, dirs, native, runbooks, ncalls>>

\* await detectInitSystem() inside installService / uninstallService / generateConfig
DetectInitSystem(p) ==
  /\ pc[p] = "detectInitSystem"
  /\ \E host \in HostsOf(p) :
       LET id == detectInitSystem(host)
       IN IF id = Undef
          THEN Finish(p, Threw(<<"Unsupported init system.">>), DetectTrace(host))
          ELSE /\ pc' = [pc EXCEPT ![p] = "ServiceManager." \o call[p].op]
               /\ call' = [call EXCEPT ![p].initSystem = id,
                                       ![p].trace = @ \o DetectTrace(host)]
  /\ UNCHANGED <<fs, dirs, native, runbooks, ncalls>>

\* ServiceManager.installService / uninstallService / generateConfig: look the
\* manager up and delegate.
ServiceManagerDispatch(p) ==
  /\ pc[p] \in {"ServiceManager.install", "ServiceManager.uninstall", "ServiceManager.generateConfig"}
  /\ LET manager == ManagerFor(call[p].initSystem)
     IN IF manager = Undef
        THEN Finish(p, Threw(<<"Unsupported init system: ", call[p].initSystem>>), <<>>)
        ELSE /\ pc' = [pc EXCEPT ![p] = manager \o "." \o call[p].op]
             /\ call' = [call EXCEPT ![p].mgr = manager,
                                     ![p].trace = @ \o <<Ev("call", <<manager, call[p].op>>)>>]
  /\ UNCHANGED <<fs, dirs, native, runbooks, ncalls>>

(* ---------------------------------------------------- manager.generateConfig *)
\* Mutant: the output carries the number of the call that produced it.
ManagerGenerate_Numbered(p) ==
  /\ pc[p] \in {m \o ".generateConfig" : m \in Managers}
  /\ Finish(p, Returned(ManagerGenerateConfig(call[p].env, call[p].mgr, call[p].config)
                         \o <<"# ", ToString(ncalls)>>),
            <<Ev("call", <<"generateConfig">>)>>)
  /\ UNCHANGED <<fs, dirs, native, runbooks, ncalls>>

\* manager.generateConfig(options) called through the dispatcher or directly.
ManagerGenerate(p) ==
  /\ pc[p] \in {m \o ".generateConfig" : m \in Managers}
  /\ Finish(p, Returned(ManagerGenerateConfig(call[p].env, call[p].mgr, call[p].config)),
            <<Ev("call", <<"generateConfig">>)>>)
  /\ UNCHANGED <<fs, dirs, native, runbooks, ncalls>>

\* Mutant: the dry-run prints the artifact without its target path.
DryRunPrints_WithoutPath(path, content) ==
  <<Ev("print", <<"\nThis is a dry-run, nothing will be written to disk or installed.">>),
    Ev("print", <<"\nConfiguration:\n">>),
    Ev("print", content)>>

\* The console.log lines of the dry-run branch, the same in every manager.
DryRunPrints(path, content) ==
  <<Ev("print", <<"\nThis is a dry-run, nothing will be written to disk or installed.">>),
    Ev("print", <<"\nPath: ", " ">> \o path),
    Ev("print", <<"\nConfiguration:\n">>),
    Ev("print", content)>>

\* Deno.makeTempFile() then Deno.writeTextFile(tempFilePath, content): the next
\* unused name in the temporary directory.
NextTemp == TempPath(Cardinality({q \in DOMAIN fs : IsTemp(q)}) + 1)

(* ------------------------------------------------------------------ systemd *)
SystemdPathUser(config) == <<config.home, "/.config/systemd/user", "/", config.name, ".service">>
SystemdPathSystem(config) == <<"/etc/systemd/system", "/", config.name, ".service">>
SystemdServicePath(config) ==
  IF config.system THEN SystemdPathSystem(config) ELSE SystemdPathUser(config)

\* Mutant: only the path of the requested scope is checked.
SystemdInstallChecks_RequestedScopeOnly(config) == <<SystemdServicePath(config)>>

\* The paths install checks with existsSync, in the order it checks them.
SystemdInstallChecks(config) == <<SystemdPathUser(config), SystemdPathSystem(config)>>

\* Mutant: install goes straight to rendering, whoever the user is.
SystemdNeedsLinger_Never(config, onlyGenerate) == FALSE

\* if (!config.system && !onlyGenerate): linger is needed
SystemdNeedsLinger(config, onlyGenerate) == ~config.system /\ ~onlyGenerate

\* Mutant: a real install writes the destination itself in either scope.
SystemdInstallBranch_AlwaysDirect(config, onlyGenerate) ==
  IF onlyGenerate THEN "dry" ELSE "direct"

\* Mutant: the dry-run flag is not consulted.
SystemdInstallBranch_IgnoresDryRun(config, onlyGenerate) ==
  IF config.system THEN "manual" ELSE "direct"

\* The branch install takes after rendering.
SystemdInstallBranch(config, onlyGenerate) ==
  IF onlyGenerate THEN "dry" ELSE IF config.system THEN "manual" ELSE "direct"

\* args: [config.system ? "" : "--user", ...]
SystemctlArgs(system, rest) == <<"systemctl", IF system THEN "" ELSE "--user">> \o rest

\* systemd's view of the unit files after a daemon-reload. (native.enabled is the
\* set of enablement links `systemctl enable` created; only `systemctl disable`,
\* which the program never runs, removes one.)
UnitFiles(f) == {q \in DOMAIN f : q[Len(q)] = ".service"}

\* SystemdService.install, lines 38-58: existence checks, user check, spawn loginctl
SystemdInstall(p) ==
  /\ pc[p] = "SystemdService.install"
  /\ LET config == call[p].config
         checks == SystemdInstallChecks(config)
         hit == {i \in 1..Len(checks) : Exists(checks[i])}
         first == CHOOSE i \in hit : \A j \in hit : i <= j
         seen == [i \in 1..(IF hit = {} THEN Len(checks) ELSE first) |-> Ev("exists", checks[i])]
     IN IF hit # {}
        THEN Finish(p, Exited(1, <<"Service '", config.name, "' already exists in '">>
                                  \o checks[first] \o <<"'. Exiting.">>), seen)
        ELSE IF SystemdNeedsLinger(config, call[p].onlyGenerate)
        THEN IF ~Truthy(config.user)
             THEN Finish(p, Threw(<<"Username not found in $USER, must be specified using the --username flag.">>), seen)
             ELSE Goto(p, "SystemdService.install.linger",
                       seen \o <<Ev("spawn", <<"loginctl", "enable-linger", config.user>>)>>)
        ELSE Goto(p, "SystemdService.install.render", seen)
  /\ UNCHANGED <<fs, dirs, native, runbooks, ncalls>>

\* lines 59-62: await enableLinger.status
SystemdLinger(p) ==
  /\ pc[p] = "SystemdService.install.linger"
  /\ \E o \in CmdOutcomes :
       IF ~o.success
       THEN /\ Finish(p, Threw(<<"Failed to enable linger for user mode.">>),
                      <<Ev("fail", <<"linger", o.stderr>>)>>)
            /\ UNCHANGED native
       ELSE /\ Goto(p, "SystemdService.install.render", <<Ev("ok", <<"linger">>)>>)
            /\ native' = [native EXCEPT !.linger = @ \cup {call[p].config.user}]
  /\ UNCHANGED <<fs, dirs, runbooks, ncalls>>

\* lines 65-72: render, then the dry-run branch or on to the temp file / the write
SystemdRender(p) ==
  /\ pc[p] = "SystemdService.install.render"
  /\ LET config == call[p].config
         content == SystemdGenerateConfig(call[p].env, config)
         branch == SystemdInstallBranch(config, call[p].onlyGenerate)
         gen == <<Ev("call", <<"generateConfig">>)>>
     IN IF branch = "dry"
        THEN Finish(p, Returned(<<>>), gen \o DryRunPrints(SystemdServicePath(config), content))
        ELSE /\ pc' = [pc EXCEPT ![p] = IF branch = "manual" THEN "SystemdService.install.temp"
                                         ELSE "SystemdService.install.write"]
             /\ call' = [call EXCEPT ![p].content = content, ![p].trace = @ \o gen,
                                     ![p].path = SystemdServicePath(config)]
  /\ UNCHANGED <<fs, dirs, native, runbooks, ncalls>>

\* lines 73-85: temp file and the printed runbook (system scope)
SystemdManual(p) ==
  /\ pc[p] = "SystemdService.install.temp"
  /\ LET tempFilePath == NextTemp
         name == call[p].config.name
     IN /\ fs' = Written(fs, tempFilePath, call[p].content)
        /\ runbooks' = runbooks \cup {[src |-> tempFilePath, dest |-> call[p].path]}
        /\ Finish(p, Returned(<<>>),
                  <<Ev("mktemp", tempFilePath), Ev("write", tempFilePath),
                    Ev("print", <<"\n  sudo cp ">> \o tempFilePath \o <<" ">> \o call[p].path),
                    Ev("print", <<"\n  sudo systemctl daemon-reload">>),
                    Ev("print", <<"\n  sudo systemctl enable ", name>>),
                    Ev("print", <<"\n  sudo systemctl start ", name, "\n">>)>>)
  /\ UNCHANGED <<dirs, native, ncalls>>

\* line 88: await Deno.writeTextFile(servicePath, serviceFileContent); a failure
\* is an exception out of install
SystemdWrite(p) ==
  /\ pc[p] = "SystemdService.install.write"
  /\ \E ok \in BOOLEAN :
       IF ok /\ CanWrite(call[p].path)
       THEN /\ fs' = Written(fs, call[p].path, call[p].content)
            /\ Goto(p, "SystemdService.install.daemonReload",
                    <<Ev("write", call[p].path),
                      Ev("spawn", SystemctlArgs(call[p].config.system, <<"daemon-reload">>))>>)
       ELSE /\ fs' = fs
            /\ Finish(p, Threw(<<"writeTextFile failed: ">> \o call[p].path), <<>>)
  /\ UNCHANGED <<dirs, native, runbooks, ncalls>>

\* Mutant: the error text leaves the command's stderr out.
SystemdActivationError_WithoutStderr(step, stderr) ==
  <<"Failed to " \o step \o ", rolled back any changes.">>

\* "Failed to ..., rolled back any changes. Error: \n" + stderr text
SystemdActivationError(step, stderr) ==
  <<"Failed to " \o step \o ", rolled back any changes. Error: \n", stderr>>

\* Mutant: the exit status of the command is not looked at.
SystemdAfter_IgnoresStatus(step, success) ==
  CASE step = "daemonReload" -> "SystemdService.install.enable"
    [] step = "enable" -> "SystemdService.install.start"
    [] step = "start" -> "done"

\* The step after an activation command: the next command when it succeeded,
\* rollback when it failed.
SystemdAfter(step, success) ==
  IF ~success THEN "SystemdService.rollback"
  ELSE CASE step = "daemonReload" -> "SystemdService.install.enable"
         [] step = "enable" -> "SystemdService.install.start"
         [] step = "start" -> "done"

\* What a successful activation command changes in systemd.
SystemdApplied(n, step, name) ==
  CASE step = "daemonReload" -> [n EXCEPT !.loaded = UnitFiles(fs)]
    [] step = "enable" -> [n EXCEPT !.enabled = @ \cup {name}]
    [] step = "start" -> [n EXCEPT !.active = @ \cup {name}]

\* One activation command of install has ended (lines 93-98, 103-108, 113-118):
\* on failure rollback is called with the error kept for the throw after it; on
\* success the next command is spawned, or install returns after start.
SystemdActivation(p, step, label, cmd) ==
  /\ pc[p] = "SystemdService.install." \o step
  /\ \E o \in CmdOutcomes :
       LET config == call[p].config
           next == SystemdAfter(step, o.success)
           ended == IF o.success THEN Ev("ok", <<step>>) ELSE Ev("fail", <<step, o.stderr>>)
       IN /\ native' = IF o.success THEN SystemdApplied(native, step, config.name) ELSE native
          /\ IF next = "SystemdService.rollback"
             THEN /\ pc' = [pc EXCEPT ![p] = next]
                  /\ call' = [call EXCEPT ![p].pending = SystemdActivationError(label, o.stderr),
                                          ![p].trace = @ \o <<ended, Ev("call", <<"rollback">>)>>]
             ELSE IF next = "done"
             THEN Finish(p, Returned(<<>>),
                         <<ended,
                           Ev("print", <<"Service '", config.name, "' installed at '">>
                                       \o call[p].path \o <<"' and enabled.">>)>>)
             ELSE Goto(p, next, <<ended, Ev("spawn", cmd)>>)
  /\ UNCHANGED <<fs, dirs, runbooks, ncalls>>

SystemdDaemonReload(p) ==
  SystemdActivation(p, "daemonReload", "reload daemon",
                    SystemctlArgs(call[p].config.system, <<"enable", call[p].config.name>>))

SystemdEnable(p) ==
  SystemdActivation(p, "enable", "enable service",
                    SystemctlArgs(call[p].config.system, <<"start", call[p].config.name>>))

SystemdStart(p) == SystemdActivation(p, "start", "start service", <<>>)

\* Mutant: the error raised inside rollback escapes it.
SystemdRollbackCaught_Rethrows(pending, error) == Threw(error)

\* What rollback's catch block does with an error raised inside rollback.
SystemdRollbackCaught(pending, error) == Threw(pending)

\* SystemdService.rollback, line 198: await Deno.remove(servicePath)
SystemdRollback(p) ==
  /\ pc[p] = "SystemdService.rollback"
  /\ \E ok \in BOOLEAN :
       IF ok /\ call[p].path \in DOMAIN fs
       THEN /\ fs' = Removed(fs, call[p].path)
            /\ Goto(p, "SystemdService.rollback.reload",
                    <<Ev("remove", call[p].path),
                      Ev("spawn", SystemctlArgs(call[p].config.system, <<"daemon-reload">>))>>)
       ELSE /\ fs' = fs
            /\ Finish(p, SystemdRollbackCaught(call[p].pending, <<"remove failed">>),
                      <<Ev("error", <<"Failed to rollback changes: Could not remove '">>
                                    \o call[p].path \o <<"'. Error:", " ", "remove failed">>)>>)
  /\ UNCHANGED <<dirs, native, runbooks, ncalls>>

\* lines 200-209: the rollback's own daemon-reload, then back in install the throw
SystemdRollbackReload(p) ==
  /\ pc[p] = "SystemdService.rollback.reload"
  /\ \E o \in CmdOutcomes :
       IF o.success
       THEN /\ native' = [native EXCEPT !.loaded = UnitFiles(fs)]
            /\ Finish(p, Threw(call[p].pending),
                      <<Ev("print", <<"Changes rolled back: Removed '">> \o call[p].path \o <<"'.">>)>>)
       ELSE /\ native' = native
            /\ Finish(p, SystemdRollbackCaught(call[p].pending,
                                               <<"Failed to reload daemon while rolling back.">>),
                      <<Ev("error", <<"Failed to rollback changes: Could not remove '">>
                                    \o call[p].path
                                    \o <<"'. Error:", " ", "Failed to reload daemon while rolling back.">>)>>)
  /\ UNCHANGED <<fs, dirs, runbooks, ncalls>>

\* Mutant: uninstall goes on without the existence check.
UninstallCheck_Missing(p, path, message, next, evs) ==
  /\ pc' = [pc EXCEPT ![p] = next]
  /\ call' = [call EXCEPT ![p].path = path, ![p].trace = @ \o evs]

\* uninstall's existsSync check, shared shape of every manager: exit(1) when the
\* artifact is missing, otherwise on to step next.
UninstallCheck(p, path, message, next, evs) ==
  IF ~Exists(path)
  THEN Finish(p, Exited(1, message), <<Ev("exists", path)>>)
  ELSE /\ pc' = [pc EXCEPT ![p] = next]
       /\ call' = [call EXCEPT ![p].path = path, ![p].trace = @ \o <<Ev("exists", path)>> \o evs]

\* Mutant: the follow-up native command is run as well as printed.
UninstallRemove_RunsFollowUp(p, prints) ==
  \E ok \in BOOLEAN :
    IF ok /\ call[p].path \in DOMAIN fs
    THEN /\ fs' = Removed(fs, call[p].path)
         /\ Finish(p, Returned(<<>>),
                   <<Ev("remove", call[p].path),
                     Ev("print", <<"Service '", call[p].config.name, "' uninstalled successfully.">>)>>
                   \o prints \o [i \in 1..Len(prints) |-> Ev("spawn", prints[i].arg)])
    ELSE /\ fs' = fs
         /\ Finish(p, Returned(<<>>),
                   <<Ev("error", <<"Failed to uninstall service: Could not remove '">>
                                 \o call[p].path \o <<"'. Error:", " ", "remove failed">>)>>)

\* try { await Deno.remove(path); console.log(...) } catch { console.error(...) }
\* of the uninstall methods: both ways the method returns normally.
UninstallRemove(p, prints) ==
  \E ok \in BOOLEAN :
    IF ok /\ call[p].path \in DOMAIN fs
    THEN /\ fs' = Removed(fs, call[p].path)
         /\ Finish(p, Returned(<<>>),
                   <<Ev("remove", call[p].path),
                     Ev("print", <<"Service '", call[p].config.name, "' uninstalled successfully.">>)>>
                   \o prints)
    ELSE /\ fs' = fs
         /\ Finish(p, Returned(<<>>),
                   <<Ev("error", <<"Failed to uninstall service: Could not remove '">>
                                 \o call[p].path \o <<"'. Error:", " ", "remove failed">>)>>)

\* SystemdService.uninstall, lines 133-144
SystemdUninstall(p) ==
  /\ pc[p] = "SystemdService.uninstall"
  /\ UninstallCheck(p, SystemdServicePath(call[p].config),
                    <<"Service '", call[p].config.name, "' does not exist. Exiting.">>,
                    "SystemdService.uninstall.remove", <<>>)
  /\ UNCHANGED <<fs, dirs, native, runbooks, ncalls>>

\* SystemdService.uninstall, lines 146-159
SystemdUninstallRemove(p) ==
  /\ pc[p] = "SystemdService.uninstall.remove"
  /\ UninstallRemove(p, IF call[p].config.system
                        THEN <<Ev("print", <<"sudo systemctl daemon-reload">>)>>
                        ELSE <<Ev("print", <<"systemctl --user daemon-reload">>)>>)
  /\ UNCHANGED <<dirs, native, runbooks, ncalls>>

(* ------------------------------------------------------------------ launchd *)
LaunchdPathUser(config) == <<config.home, "/Library/LaunchAgents", "/", config.name, ".plist">>
LaunchdPathSystem(config) == <<"/Library/LaunchDaemons", "/", config.name, ".plist">>
LaunchdPlistPath(config) ==
  IF config.system THEN LaunchdPathSystem(config) ELSE LaunchdPathUser(config)

\* existsSync(plistPathUser) || existsSync(plistPathSystem)
LaunchdInstallChecks(config) == <<LaunchdPathUser(config), LaunchdPathSystem(config)>>

\* The branch install takes after rendering.
LaunchdInstallBranch(config, onlyGenerate) == IF onlyGenerate THEN "dry" ELSE "direct"

\* The existsSync calls of an install, in order, up to the first hit.
ChecksSeen(checks) ==
  LET hit == {i \in 1..Len(checks) : Exists(checks[i])}
      last == IF hit = {} THEN Len(checks) ELSE CHOOSE i \in hit : \A j \in hit : i <= j
  IN [i \in 1..last |-> Ev("exists", checks[i])]

AnyExists(checks) == \E i \in 1..Len(checks) : Exists(checks[i])

\* LaunchdService.install, lines 72-94: checks, render, dry-run branch, await mkdir
LaunchdInstall(p) ==
  /\ pc[p] = "LaunchdService.install"
  /\ LET config == call[p].config
         checks == LaunchdInstallChecks(config)
         plistPath == LaunchdPlistPath(config)
         plistContent == LaunchdGenerateConfig(call[p].env, config)
         gen == <<Ev("call", <<"generateConfig">>)>>
     IN IF AnyExists(checks)
        THEN Finish(p, Exited(1, <<"Service '", config.name, "' already exists. Exiting.">>),
                    ChecksSeen(checks))
        ELSE IF LaunchdInstallBranch(config, call[p].onlyGenerate) = "dry"
        THEN Finish(p, Returned(<<>>), ChecksSeen(checks) \o gen \o DryRunPrints(plistPath, plistContent))
        ELSE /\ pc' = [pc EXCEPT ![p] = "LaunchdService.install.mkdir"]
             /\ call' = [call EXCEPT ![p].content = plistContent, ![p].path = plistPath,
                                     ![p].trace = @ \o ChecksSeen(checks) \o gen]
  /\ UNCHANGED <<fs, dirs, native, runbooks, ncalls>>

\* line 94: await Deno.mkdir(plistDir, { recursive: true })
LaunchdMkdir(p) ==
  /\ pc[p] = "LaunchdService.install.mkdir"
  /\ \E ok \in BOOLEAN :
       IF ok
       THEN /\ dirs' = MkdirP(dirs, dirname(call[p].path))
            /\ Goto(p, "LaunchdService.install.write", <<Ev("mkdir", dirname(call[p].path))>>)
       ELSE /\ dirs' = dirs
            /\ Finish(p, Threw(<<"mkdir failed: ">> \o dirname(call[p].path)), <<>>)
  /\ UNCHANGED <<fs, native, runbooks, ncalls>>

\* lines 97-108: write the plist, print the launchctl command
LaunchdWrite(p) ==
  /\ pc[p] = "LaunchdService.install.write"
  /\ \E ok \in BOOLEAN :
       IF ok /\ CanWrite(call[p].path)
       THEN /\ fs' = Written(fs, call[p].path, call[p].content)
            /\ Finish(p, Returned(<<>>),
                      <<Ev("write", call[p].path),
                        Ev("print", <<"Service '", call[p].config.name, "' installed at '">>
                                    \o call[p].path \o <<"'.">>),
                        Ev("print", (IF call[p].config.system THEN <<"sudo ">> ELSE <<>>)
                                    \o <<"launchctl load ">> \o call[p].path)>>)
       ELSE /\ fs' = fs
            /\ Finish(p, Threw(<<"writeTextFile failed: ">> \o call[p].path), <<>>)
  /\ UNCHANGED <<dirs, native, runbooks, ncalls>>

\* LaunchdService.uninstall, lines 134-144
LaunchdUninstall(p) ==
  /\ pc[p] = "LaunchdService.uninstall"
  /\ UninstallCheck(p, LaunchdPlistPath(call[p].config),
                    <<"Service '", call[p].config.name, "' does not exist. Exiting.">>,
                    "LaunchdService.uninstall.remove", <<>>)
  /\ UNCHANGED <<fs, dirs, native, runbooks, ncalls>>

\* LaunchdService.uninstall, lines 146-160
LaunchdUninstallRemove(p) ==
  /\ pc[p] = "LaunchdService.uninstall.remove"
  /\ UninstallRemove(p, <<Ev("print", (IF call[p].config.system THEN <<"sudo ">> ELSE <<>>)
                                      \o <<"launchctl unload ">> \o call[p].path)>>)
  /\ UNCHANGED <<dirs, native, runbooks, ncalls>>

(* ------------------------------------------------- sysvinit and docker-init *)
InitScriptPath(config) == <<"/etc/init.d", "/", config.name>>

InitInstallChecks(config) == <<InitScriptPath(config)>>

InitInstallBranch(config, onlyGenerate) == IF onlyGenerate THEN "dry" ELSE "manual"

\* The temp-file branch of install: Deno.makeTempFile, Deno.writeTextFile to it,
\* then the printed runbook; nothing else is touched.
ManualInstall(p, prints) ==
  LET tempFilePath == NextTemp
  IN /\ fs' = Written(fs, tempFilePath, call[p].content)
     /\ runbooks' = runbooks \cup {[src |-> tempFilePath, dest |-> call[p].path]}
     /\ Finish(p, Returned(<<>>),
               <<Ev("mktemp", tempFilePath), Ev("write", tempFilePath),
                 Ev("print", <<"\n  sudo cp ">> \o tempFilePath \o <<" ">> \o call[p].path)>>
               \o prints)

\* install up to the branch, for the managers with one artifact path and no
\* step before rendering (init, upstart, windows).
CheckAndRender(p, checks, path, content, already, branch, next) ==
  LET gen == <<Ev("call", <<"generateConfig">>)>>
  IN IF AnyExists(checks)
     THEN Finish(p, Exited(1, already), ChecksSeen(checks))
     ELSE IF branch = "dry"
     THEN Finish(p, Returned(<<>>), ChecksSeen(checks) \o gen \o DryRunPrints(path, content))
     ELSE /\ pc' = [pc EXCEPT ![p] = next]
          /\ call' = [call EXCEPT ![p].content = content, ![p].path = path,
                                  ![p].trace = @ \o ChecksSeen(checks) \o gen]

\* InitService.install, lines 91-107
InitInstall(p) ==
  /\ pc[p] = "InitService.install"
  /\ LET config == call[p].config
     IN CheckAndRender(p, InitInstallChecks(config), InitScriptPath(config),
                       InitGenerateConfig(call[p].env, config),
                       <<"Service '", config.name, "' already exists in '">>
                       \o InitScriptPath(config) \o <<"'. Exiting.">>,
                       InitInstallBranch(config, call[p].onlyGenerate),
                       "InitService.install.temp")
  /\ UNCHANGED <<fs, dirs, native, runbooks, ncalls>>

\* InitService.install, lines 107-118
InitManual(p) ==
  /\ pc[p] = "InitService.install.temp"
  /\ ManualInstall(p, <<Ev("print", <<"\n  sudo chmod +x ">> \o call[p].path),
                        Ev("print", <<"\n  sudo update-rc.d ", call[p].config.name, " defaults">>),
                        Ev("print", <<"\n  sudo service ", call[p].config.name, " start">>)>>)
  /\ UNCHANGED <<dirs, native, ncalls>>

\* InitService.uninstall: the check, then only the printed runbook
InitUninstall(p) ==
  /\ pc[p] = "InitService.uninstall"
  /\ LET config == call[p].config
         initScriptPath == InitScriptPath(config)
     IN IF ~Exists(initScriptPath)
        THEN Finish(p, Exited(1, <<"Service '", config.name, "' does not exist in '">>
                                 \o initScriptPath \o <<"'. Exiting.">>),
                    <<Ev("exists", initScriptPath)>>)
        ELSE Finish(p, Returned(<<>>),
                    <<Ev("exists", initScriptPath),
                      Ev("print", <<"\n  sudo service ", config.name, " stop">>),
                      Ev("print", <<"\n  sudo update-rc.d -f ", config.name, " remove">>),
                      Ev("print", <<"\n  sudo rm ">> \o initScriptPath)>>)
  /\ UNCHANGED <<fs, dirs, native, runbooks, ncalls>>

(* ------------------------------------------------------------------ upstart *)
UpstartFilePath(config) == <<"/etc/init", "/", config.name, ".conf">>

UpstartInstallChecks(config) == <<UpstartFilePath(config)>>

UpstartInstallBranch(config, onlyGenerate) == IF onlyGenerate THEN "dry" ELSE "manual"

\* UpstartService.install, lines 61-81
UpstartInstall(p) ==
  /\ pc[p] = "UpstartService.install"
  /\ LET config == call[p].config
     IN CheckAndRender(p, UpstartInstallChecks(config), UpstartFilePath(config),
                       UpstartGenerateConfig(call[p].env, config),
                       <<"Service '", config.name, "' already exists in '">>
                       \o UpstartFilePath(config) \o <<"'. Exiting.">>,
                       UpstartInstallBranch(config, call[p].onlyGenerate),
                       "UpstartService.install.temp")
  /\ UNCHANGED <<fs, dirs, native, runbooks, ncalls>>

\* UpstartService.install, lines 81-92
UpstartManual(p) ==
  /\ pc[p] = "UpstartService.install.temp"
  /\ ManualInstall(p, <<Ev("print", <<"\n  sudo start ", call[p].config.name, "\n">>)>>)
  /\ UNCHANGED <<dirs, native, ncalls>>

\* UpstartService.uninstall, lines 101-107
UpstartUninstall(p) ==
  /\ pc[p] = "UpstartService.uninstall"
  /\ UninstallCheck(p, UpstartFilePath(call[p].config),
                    <<"Service '", call[p].config.name, "' does not exist. Exiting.">>,
                    "UpstartService.uninstall.remove", <<>>)
  /\ UNCHANGED <<fs, dirs, native, runbooks, ncalls>>

\* UpstartService.uninstall, lines 109-122
UpstartUninstallRemove(p) ==
  /\ pc[p] = "UpstartService.uninstall.remove"
  /\ UninstallRemove(p, <<Ev("print", <<"sudo stop ", call[p].config.name>>)>>)
  /\ UNCHANGED <<dirs, native, runbooks, ncalls>>

(* ------------------------------------------------------------------ windows *)
WindowsBatchPath(config) == <<config.home, "/.service", "/", config.name, ".bat">>
\* `${config.home}/.service/`
WindowsServiceDirectory(config) == <<config.home, "/.service">>

WindowsInstallChecks(config) == <<WindowsBatchPath(config)>>

WindowsInstallBranch(config, onlyGenerate) == IF onlyGenerate THEN "dry" ELSE "direct"

\* powershell.exe -Command Start-Process sc.exe -ArgumentList '<scArgs>' -Verb RunAs
PowershellSc(scArgs) ==
  <<"powershell.exe", "-Command", "Start-Process", "sc.exe", "-ArgumentList", "'">>
  \o scArgs \o <<"'", "-Verb", "RunAs">>

ScCreateArgs(config) ==
  <<"create ", config.name, " binPath=\"cmd.exe /C ">> \o WindowsBatchPath(config)
  \o <<"\" start= auto DisplayName= \"", config.name, "\" obj= LocalSystem">>

ScDeleteArgs(config) == <<"delete ", config.name>>

\* WindowsService.install, lines 22-44
WindowsInstall(p) ==
  /\ pc[p] = "WindowsService.install"
  /\ LET config == call[p].config
     IN CheckAndRender(p, WindowsInstallChecks(config), WindowsBatchPath(config),
                       WindowsGenerateConfig(call[p].env, config),
                       <<"Service '", config.name, "' already exists in '">>
                       \o WindowsBatchPath(config) \o <<"'. Exiting.">>,
                       WindowsInstallBranch(config, call[p].onlyGenerate),
                       IF Exists(WindowsServiceDirectory(config))
                       THEN "WindowsService.install.write"
                       ELSE "WindowsService.install.mkdir")
  /\ UNCHANGED <<fs, dirs, native, runbooks, ncalls>>

\* line 43: await Deno.mkdir(serviceDirectory, { recursive: true })
WindowsMkdir(p) ==
  /\ pc[p] = "WindowsService.install.mkdir"
  /\ \E ok \in BOOLEAN :
       IF ok
       THEN /\ dirs' = MkdirP(dirs, WindowsServiceDirectory(call[p].config))
            /\ Goto(p, "WindowsService.install.write",
                    <<Ev("mkdir", WindowsServiceDirectory(call[p].config))>>)
       ELSE /\ dirs' = dirs
            /\ Finish(p, Threw(<<"mkdir failed: ">> \o WindowsServiceDirectory(call[p].config)), <<>>)
  /\ UNCHANGED <<fs, native, runbooks, ncalls>>

\* lines 47-67: write the batch file, spawn the elevated sc.exe create
WindowsWrite(p) ==
  /\ pc[p] = "WindowsService.install.write"
  /\ \E ok \in BOOLEAN :
       IF ok /\ CanWrite(call[p].path)
       THEN /\ fs' = Written(fs, call[p].path, call[p].content)
            /\ Goto(p, "WindowsService.install.create",
                    <<Ev("write", call[p].path),
                      Ev("spawn", PowershellSc(ScCreateArgs(call[p].config)))>>)
       ELSE /\ fs' = fs
            /\ Finish(p, Threw(<<"writeTextFile failed: ">> \o call[p].path), <<>>)
  /\ UNCHANGED <<dirs, native, runbooks, ncalls>>

\* "Failed to install service. Error: \n" + stderr text
WindowsActivationError(what, stderr) == <<"Failed to " \o what \o " service. Error: \n", stderr>>

\* Where install / uninstall go once the elevated sc.exe command has ended.
WindowsAfter(step, success) ==
  IF ~success THEN "WindowsService.rollback"
  ELSE IF step = "create" THEN "done" ELSE "WindowsService.uninstall.remove"

\* lines 68-75: the outcome of sc.exe create
WindowsCreate(p) ==
  /\ pc[p] = "WindowsService.install.create"
  /\ \E o \in CmdOutcomes :
       LET config == call[p].config
           ended == IF o.success THEN Ev("ok", <<"create">>)
                    ELSE Ev("fail", <<"create", o.stderr>>)
       IN IF WindowsAfter("create", o.success) = "WindowsService.rollback"
          THEN /\ native' = native
               /\ pc' = [pc EXCEPT ![p] = "WindowsService.rollback"]
               /\ call' = [call EXCEPT ![p].pending = WindowsActivationError("install", o.stderr),
                                       ![p].trace = @ \o <<ended, Ev("call", <<"rollback">>)>>]
          ELSE /\ native' = IF o.success THEN [native EXCEPT !.scm = @ \cup {config.name}]
                            ELSE native
               /\ Finish(p, Returned(<<>>),
                         <<ended,
                           Ev("print", <<"Service '", config.name, "' installed at '">>
                                       \o call[p].path \o <<"' and enabled.">>)>>)
  /\ UNCHANGED <<fs, dirs, runbooks, ncalls>>

\* What rollback's catch block does with an error raised inside rollback.
WindowsRollbackCaught(pending, error) == Threw(pending)

\* WindowsService.rollback, then back in the caller the throw
WindowsRollback(p) ==
  /\ pc[p] = "WindowsService.rollback"
  /\ \E ok \in BOOLEAN :
       IF ok /\ call[p].path \in DOMAIN fs
       THEN /\ fs' = Removed(fs, call[p].path)
            /\ Finish(p, Threw(call[p].pending),
                      <<Ev("remove", call[p].path),
                        Ev("print", <<"Changes rolled back: Removed '">> \o call[p].path \o <<"'.">>)>>)
       ELSE /\ fs' = fs
            /\ Finish(p, WindowsRollbackCaught(call[p].pending, <<"remove failed">>),
                      <<Ev("error", <<"Failed to rollback changes: Could not remove '">>
                                    \o call[p].path \o <<"'. Error:", " ", "remove failed">>)>>)
  /\ UNCHANGED <<dirs, native, runbooks, ncalls>>

\* WindowsService.uninstall, lines 89-116: the check, spawn the elevated sc.exe delete
WindowsUninstall(p) ==
  /\ pc[p] = "WindowsService.uninstall"
  /\ UninstallCheck(p, WindowsBatchPath(call[p].config),
                    <<"Service '", call[p].config.name, "' does not exist. Exiting.">>,
                    "WindowsService.uninstall.delete",
                    <<Ev("spawn", PowershellSc(ScDeleteArgs(call[p].config)))>>)
  /\ UNCHANGED <<fs, dirs, native, runbooks, ncalls>>

\* lines 117-122: the outcome of sc.exe delete
WindowsDelete(p) ==
  /\ pc[p] = "WindowsService.uninstall.delete"
  /\ \E o \in CmdOutcomes :
       LET ended == IF o.success THEN Ev("ok", <<"delete">>)
                    ELSE Ev("fail", <<"delete", o.stderr>>)
       IN IF WindowsAfter("delete", o.success) = "WindowsService.rollback"
          THEN /\ native' = native
               /\ pc' = [pc EXCEPT ![p] = "WindowsService.rollback"]
               /\ call' = [call EXCEPT ![p].pending = WindowsActivationError("uninstall", o.stderr),
                                       ![p].trace = @ \o <<ended, Ev("call", <<"rollback">>)>>]
          ELSE /\ native' = IF o.success THEN [native EXCEPT !.scm = @ \ {call[p].config.name}]
                            ELSE native
               /\ Goto(p, "WindowsService.uninstall.remove", <<ended>>)
  /\ UNCHANGED <<fs, dirs, runbooks, ncalls>>

\* lines 124-129
WindowsUninstallRemove(p) ==
  /\ pc[p] = "WindowsService.uninstall.remove"
  /\ UninstallRemove(p, <<>>)
  /\ UNCHANGED <<dirs, native, runbooks, ncalls>>

(* -------------------------------------------------------------- environment *)
\* The operator carries out step 1 of a printed runbook, `sudo cp <temp> <destination>`,
\* between two invocations; the record of the finished call is dropped.
OperatorCopy ==
  /\ \A p \in Procs : pc[p] \in {"idle", "done"}
  /\ \E r \in runbooks :
       /\ r.src \in DOMAIN fs
       /\ r.dest \notin DOMAIN fs
       /\ fs' = Written(fs, r.dest, fs[r.src])
  /\ pc' = [p \in Procs |-> "idle"]
  /\ call' = [p \in Procs |-> IdleCall]
  /\ UNCHANGED <<dirs, native, runbooks, ncalls>>

(* ------------------------------------------------------------ specification *)
\* One step of invocation p.
Step(p) ==
  \/ CallInstallService(p) \/ CallUninstallService(p) \/ CallGenerateConfig(p) \/ CallManager(p)
  \/ InstallService(p) \/ UninstallService(p) \/ GenerateConfig(p)
  \/ DetectInitSystem(p) \/ ServiceManagerDispatch(p) \/ ManagerGenerate(p)
  \/ SystemdInstall(p) \/ SystemdLinger(p) \/ SystemdRender(p) \/ SystemdManual(p)
  \/ SystemdWrite(p) \/ SystemdDaemonReload(p) \/ SystemdEnable(p) \/ SystemdStart(p)
  \/ SystemdRollback(p) \/ SystemdRollbackReload(p)
  \/ SystemdUninstall(p) \/ SystemdUninstallRemove(p)
  \/ LaunchdInstall(p) \/ LaunchdMkdir(p) \/ LaunchdWrite(p)
  \/ LaunchdUninstall(p) \/ LaunchdUninstallRemove(p)
  \/ InitInstall(p) \/ InitManual(p) \/ InitUninstall(p)
  \/ UpstartInstall(p) \/ UpstartManual(p) \/ UpstartUninstall(p) \/ UpstartUninstallRemove(p)
  \/ WindowsInstall(p) \/ WindowsMkdir(p) \/ WindowsWrite(p) \/ WindowsCreate(p)
  \/ WindowsRollback(p) \/ WindowsUninstall(p) \/ WindowsDelete(p) \/ WindowsUninstallRemove(p)

\* One operation in flight at a time (spec section 5): invocation 1 runs call after call.
Next == Step(1) \/ OperatorCopy

Spec == Init /\ [][Next]_vars

(* ------------------------------------------- runs of the program, side by side *)
\* Invocation p is the next program run: the runs before it have ended.
NextInLine(p) ==
  /\ pc[p] = "idle" /\ ncalls < MaxCalls
  /\ \A q \in Procs : (q < p => pc[q] = "done") /\ (q > p => pc[q] = "idle")

\* The function a dispatcher call enters.
EntryOf(op) ==
  CASE op = "install" -> "installService"
    [] op = "uninstall" -> "uninstallService"
    [] op = "generateConfig" -> "generateConfig"

DetectOptions == [system |-> FALSE, name |-> "svc", cmd |-> Cmd0]
DetectForced == {"launchd", "openrc"}
\* Every host is asked by a generateConfig run without a forced manager; the
\* other runs are tried on a macOS, a Windows and a systemd host.
FewHosts == {h \in Hosts : h.os \in {"darwin", "windows"} \/ h.pid1 = S_systemd}

\* One run of the program on a host: a dry-run installService, an
\* uninstallService or a generateConfig call, with or without a forced manager.
RunDispatcher(p) ==
  /\ NextInLine(p)
  /\ \E op \in {"install", "uninstall", "generateConfig"}, h \in Hosts,
        f \in {Undef} \cup DetectForced :
       /\ (Truthy(f) \/ op # "generateConfig") => h \in FewHosts
       /\ NewCall(p, EntryOf(op),
                  [IdleCall EXCEPT !.op = op, !.entry = "service", !.options = DetectOptions,
                                   !.onlyGenerate = (op = "install"), !.force = f, !.host = h])

NextDetect ==
  \E p \in Procs :
    \/ RunDispatcher(p)
    \/ InstallService(p) \/ UninstallService(p) \/ GenerateConfig(p)
    \/ DetectInitSystem(p) \/ ServiceManagerDispatch(p) \/ ManagerGenerate(p)
    \/ SystemdInstall(p) \/ SystemdRender(p) \/ LaunchdInstall(p)
    \/ SystemdUninstall(p) \/ LaunchdUninstall(p)

\* The runs start on a machine without user configuration directories.
InitDetect == Init /\ dirs = SystemDirs

SpecDetect == InitDetect /\ [][NextDetect]_vars

(* ------------------------------------- generateConfig in several environments *)
\* Process environments a generateConfig call can run in: Deno.env.get("HOME"),
\* Deno.cwd() and Deno.execPath() of the process.
Environments ==
  {ProcessEnv, [ProcessEnv EXCEPT !.home = "/root"], [ProcessEnv EXCEPT !.cwd = "/tmp/elsewhere"],
   [ProcessEnv EXCEPT !.execPath = "/opt/deno/bin/deno"]}

\* Valid InstallConfig values that differ in the name (a plain one and one that
\* spells a placeholder of the templates) and in the optional cwd and path.
GenerateConfigs ==
  {[system |-> FALSE, name |-> n, home |-> EnvHOME, cmd |-> Cmd0, user |-> EnvUSER,
    cwd |-> d, path |-> a, env |-> UndefArr] :
     n \in {"svc", "{{command}}"}, d \in {Undef, "/srv"},
     a \in {UndefArr, Arr(<<>>), Arr(<<"/opt/bin", "/opt/sbin">>)}}

\* manager.generateConfig(config) is called in a process: the first run picks the
\* manager and the config, a later run repeats the call of the first one in an
\* environment of its own.
RunGenerate(p) ==
  /\ NextInLine(p)
  /\ \E m \in Managers, c \in GenerateConfigs, e \in Environments :
       /\ p > 1 => m = call[1].mgr /\ c = call[1].config
       /\ NewCall(p, m \o ".generateConfig",
                  [IdleCall EXCEPT !.op = "generateConfig", !.entry = "manager", !.mgr = m,
                                   !.options = c, !.config = c, !.env = e,
                                   !.trace = <<Ev("call", <<m, "generateConfig">>)>>])

NextGenerate == \E p \in Procs : RunGenerate(p) \/ ManagerGenerate(p)

SpecGenerate == Init /\ [][NextGenerate]_vars

(* ---------------------------------------------- calls with path and env lists *)
\* env lists of a caller: absent, empty, well-formed entries (one of them with a
\* second "=" in its value) and an entry without "=".
ListEnvs ==
  {UndefArr, Arr(<<>>), Arr(<< <<"A", "1">> >>), Arr(<< <<"A", "1">>, <<"C", "x", "y">> >>),
   Arr(<< <<"NOEQ">> >>)}

ListPaths == {UndefArr, Arr(<<"/opt/bin", "/opt/sbin">>)}

\* Configs handed to a manager object, with the optional lists.
ListConfigs ==
  {[system |-> s, name |-> "svc", home |-> EnvHOME, cmd |-> Cmd0, user |-> EnvUSER,
    cwd |-> "/srv", path |-> a, env |-> e] :
     s \in BOOLEAN, a \in ListPaths, e \in ListEnvs}

\* Raw options of a library caller of installService / generateConfig.
ListOptions ==
  {[system |-> s, name |-> "svc", cmd |-> Cmd0, path |-> a, env |-> e] :
     s \in BOOLEAN, a \in ListPaths, e \in ListEnvs}

\* A program calls manager.generateConfig(config), manager.install(config, true)
\* or manager.uninstall(config).
RunManager(p) ==
  /\ CanCall(p)
  /\ \E m \in Managers, c \in ListConfigs, op \in {"install", "generateConfig", "uninstall"} :
       NewCall(p, m \o "." \o op,
               [IdleCall EXCEPT !.op = op, !.entry = "manager", !.options = c, !.config = c,
                                !.onlyGenerate = (op = "install"), !.mgr = m,
                                !.trace = <<Ev("call", <<m, op>>)>>])

\* A program calls installService(options, true, force), generateConfig(options,
\* force) or uninstallService(options, force) of the library.
RunLibrary(p) ==
  /\ CanCall(p)
  /\ \E o \in ListOptions, f \in {"systemd", "sysvinit", "upstart", "launchd"},
        op \in {"install", "generateConfig", "uninstall"} :
       NewCall(p, EntryOf(op),
               [IdleCall EXCEPT !.op = op, !.entry = "service", !.options = o,
                                !.onlyGenerate = (op = "install"), !.force = f])

NextLists ==
  \/ RunManager(1) \/ RunLibrary(1)
  \/ InstallService(1) \/ GenerateConfig(1) \/ UninstallService(1)
  \/ ServiceManagerDispatch(1) \/ ManagerGenerate(1)
  \/ SystemdInstall(1) \/ SystemdRender(1) \/ LaunchdInstall(1)
  \/ InitInstall(1) \/ UpstartInstall(1) \/ WindowsInstall(1)
  \/ SystemdUninstall(1) \/ LaunchdUninstall(1) \/ InitUninstall(1)
  \/ UpstartUninstall(1) \/ WindowsUninstall(1)

SpecLists == Init /\ [][NextLists]_vars

(* ------------------------------------------------------ command line arguments *)
\* A parsed argument record (Args of std/flags). positional is args._ and rest is
\* args["--"]; a positional argument is a string or a number, told apart by typeof.
Str(text) == [type |-> "string", text |-> text]
Num(text) == [type |-> "number", text |-> text]
\* args._.length > 0 ? args._[0] : undefined
NoBase == [type |-> "undefined", text |-> Undef]
BaseArgumentOf(args) == IF Len(args.positional) > 0 THEN args.positional[1] ELSE NoBase

validBaseArguments == {"install", "uninstall", "generate"}

\* Mutant: no base argument is rejected.
InvalidBase_NeverRejects(baseArgument) == FALSE

\* baseArgument !== undefined && (typeof baseArgument !== "string" ||
\* !validBaseArguments.includes(baseArgument))
InvalidBase(baseArgument) ==
  /\ baseArgument # NoBase
  /\ baseArgument.type # "string" \/ baseArgument.text \notin validBaseArguments

\* Mutant: a command is required for every verb.
CommandMissing_ForEveryVerb(baseArgument, args) ==
  ~Truthy(args.cmd) /\ ~(args.rest.isArr /\ Len(args.rest.items) > 0)

\* baseArgument !== "uninstall" && !args.cmd && !(args["--"] && args["--"].length > 0)
CommandMissing(baseArgument, args) ==
  /\ baseArgument # Str("uninstall")
  /\ ~Truthy(args.cmd)
  /\ ~(args.rest.isArr /\ Len(args.rest.items) > 0)

\* args.env?.length and some entry fails env.includes("=")
EnvMalformed(args) ==
  /\ args.env.isArr /\ Len(args.env.items) > 0
  /\ \E i \in 1..Len(args.env.items) : Len(args.env.items[i]) < 2

\* lib/cli/args.ts checkArguments: the record itself, or the first error.
checkArguments(args) ==
  LET baseArgument == BaseArgumentOf(args)
  IN IF InvalidBase(baseArgument)
     THEN Threw(<<"Invalid base argument: ", baseArgument.text>>)
     ELSE IF CommandMissing(baseArgument, args)
     THEN Threw(<<"Specify a command using '--cmd'">>)
     ELSE IF EnvMalformed(args)
     THEN Threw(<<"Environment variables must be specified like '--env NAME=VALUE'.">>)
     ELSE Returned(args)

\* Argument records as parseArguments and the tests build them.
ArgRecords ==
  {[positional |-> b, cmd |-> c, rest |-> r, env |-> e] :
     b \in {<<>>, <<Str("install")>>, <<Str("uninstall")>>, <<Str("generate")>>,
            <<Str("remove")>>, <<Num("5")>>, <<Str("install"), Str("uninstall")>>},
     c \in {Undef, "", "deno run"},
     r \in {UndefArr, Arr(<<>>), Arr(<<"run", "app.ts">>)},
     e \in {UndefArr, Arr(<<>>), Arr(<< <<"A", "1">> >>), Arr(<< <<"A", "1">>, <<"NOEQ">> >>)}}

\* A caller (main, a test) hands an argument record to checkArguments.
CallCheckArguments(p) ==
  /\ CanCall(p)
  /\ \E args \in ArgRecords :
       NewCall(p, "checkArguments",
               [IdleCall EXCEPT !.op = "checkArguments", !.entry = "cli", !.options = args])

CheckArguments(p) ==
  /\ pc[p] = "checkArguments"
  /\ Finish(p, checkArguments(call[p].options), <<Ev("call", <<"checkArguments">>)>>)
  /\ UNCHANGED <<fs, dirs, native, runbooks, ncalls>>

NextArgs == CallCheckArguments(1) \/ CheckArguments(1)

SpecArgs == Init /\ [][NextArgs]_vars

(* ------------------------------------------------------------- command line *)
\* Argument records as parseArguments returns them: args["--"] is always an array,
\* the collected flags path and env are arrays when given.
CliArgs ==
  {[NoArgs EXCEPT !.positional = b, !.help = h, !.system = s, !.name = "svc", !.cmd = c,
                  !.rest = Arr(<<>>), !.path = a, !.env = e] :
     b \in {<<>>, <<Str("install")>>, <<Str("generate")>>, <<Str("uninstall")>>},
     h \in BOOLEAN, s \in {Undef, ""}, c \in {Undef, "deno run"},
     a \in {UndefArr, Arr(<<"/opt/bin", "/opt/sbin">>)},
     e \in {UndefArr, Arr(<< <<"A", "1">>, <<"B", "2">> >>)}}

\* The hosts the command line runs are tried on: one per manager.
CliHosts ==
  {h \in Hosts : \/ h.os \in {"darwin", "windows"}
                 \/ h.pid1 \in {S_systemd, S_openrc}
                 \/ (h.pid1 = S_init /\ h.initctl = h.etcInit)}

\* const cmd = args.cmd || args["--"].join(" ")
CliCmd(args) == IF Truthy(args.cmd) THEN Arr(<<args.cmd>>) ELSE Arr(args.rest.items)

\* The object literal { system, name, cmd, cwd, user, home, path } of main; path is
\* undefined on the only way that reaches it.
CliInstallOptions(args) ==
  [system |-> args.system # Undef, name |-> args.name, cmd |-> CliCmd(args), cwd |-> args.cwd,
   user |-> args.user, home |-> args.home, path |-> UndefArr]

\* The object literal { system, name, home } of main.
CliUninstallOptions(args) ==
  [system |-> args.system # Undef, name |-> args.name, home |-> args.home]

\* printUsage(); console.log(""); printFlags()
UsagePrints ==
  <<Ev("print", <<"Usage: service [OPTIONS...]">>), Ev("print", <<"">>), Ev("print", <<"General:">>)>>

\* The program is started with an argument vector.
RunMain(p) ==
  /\ CanCall(p)
  /\ \E args \in CliArgs, h \in CliHosts :
       NewCall(p, "main", [IdleCall EXCEPT !.op = "main", !.entry = "main", !.args = args,
                                           !.host = h])

\* main up to its first await: check, help, the options and the verb.
Main(p) ==
  /\ pc[p] = "main"
  /\ LET args == call[p].args
         checked == checkArguments([positional |-> args.positional, cmd |-> args.cmd,
                                    rest |-> args.rest, env |-> args.env])
         baseArgument == BaseArgumentOf(args)
         called == <<Ev("call", <<"checkArguments">>)>>
     IN IF checked.kind = "threw"
        THEN Finish(p, Exited(1, checked.msg), called \o <<Ev("error", checked.msg)>>)
        ELSE IF args.help \/ baseArgument = NoBase
        THEN Finish(p, Exited(0, <<>>), called \o UsagePrints)
        ELSE IF args.path.isArr
        THEN Finish(p, Threw(<<"args.path.split is not a function">>), called)
        ELSE IF baseArgument.text \in {"install", "generate"}
        THEN /\ pc' = [pc EXCEPT ![p] = "installService"]
             /\ call' = [call EXCEPT ![p].op = "install",
                                     ![p].options = CliInstallOptions(args),
                                     ![p].onlyGenerate = (baseArgument.text = "generate"),
                                     ![p].force = args.force,
                                     ![p].trace = @ \o called]
        ELSE IF baseArgument.text = "uninstall"
        THEN /\ pc' = [pc EXCEPT ![p] = "uninstallService"]
             /\ call' = [call EXCEPT ![p].op = "uninstall",
                                     ![p].options = CliUninstallOptions(args),
                                     ![p].trace = @ \o called]
        ELSE Finish(p, Exited(1, <<"Unknown  command '", baseArgument.text, "', exiting.">>),
                    called)
  /\ UNCHANGED <<fs, dirs, native, runbooks, ncalls>>

\* main after the await: Deno.exit(0), or the catch block's message and Deno.exit(1).
MainExit(p) ==
  /\ pc[p] = "done" /\ call[p].entry = "main" /\ call[p].op \in {"install", "uninstall"}
  /\ call[p].result.kind \in {"returned", "threw"}
  /\ call' = [call EXCEPT ![p].result =
                IF call[p].result.kind = "returned" THEN Exited(0, <<>>)
                ELSE Exited(1, <<"Could not install service, error: ">> \o call[p].result.msg)]
  /\ UNCHANGED <<fs, dirs, native, runbooks, pc, ncalls>>

\* Command line runs one after the other, and the operator's manual steps. No
\* manager is registered for the identifier "windows", so a run on Windows ends in
\* the dispatcher.
NextCli ==
  \/ RunMain(1) \/ Main(1) \/ MainExit(1)
  \/ InstallService(1) \/ UninstallService(1)
  \/ DetectInitSystem(1) \/ ServiceManagerDispatch(1)
  \/ SystemdInstall(1) \/ SystemdLinger(1) \/ SystemdRender(1) \/ SystemdManual(1)
  \/ SystemdWrite(1) \/ SystemdDaemonReload(1) \/ SystemdEnable(1) \/ SystemdStart(1)
  \/ SystemdRollback(1) \/ SystemdRollbackReload(1)
  \/ SystemdUninstall(1) \/ SystemdUninstallRemove(1)
  \/ LaunchdInstall(1) \/ LaunchdMkdir(1) \/ LaunchdWrite(1)
  \/ LaunchdUninstall(1) \/ LaunchdUninstallRemove(1)
  \/ InitInstall(1) \/ InitManual(1) \/ InitUninstall(1)
  \/ UpstartInstall(1) \/ UpstartManual(1) \/ UpstartUninstall(1) \/ UpstartUninstallRemove(1)
  \/ OperatorCopy

SpecCli == Init /\ [][NextCli]_vars

(* ------------------------------------------- install and uninstall, call after call *)
\* The number of manager calls made one after the other.
MaxCycle == 3

\* Configs of the calls: one name, either scope.
CycleConfigs ==
  {[system |-> s, name |-> "svc", home |-> EnvHOME, cmd |-> Cmd0, user |-> EnvUSER,
    cwd |-> "/srv", path |-> UndefArr, env |-> UndefArr] : s \in BOOLEAN}

\* The two slots that hold the records of the latest call and of the one before it.
CycleSlots == {1, 2}
SlotOfCall(n) == ((n - 1) % 2) + 1

\* A program calls manager.install(config, false) or manager.uninstall(config) once
\* the call before has ended; its record replaces the older of the two kept.
RunCycle(p) ==
  /\ p = SlotOfCall(ncalls + 1) /\ ncalls < MaxCycle
  /\ \A q \in Procs : pc[q] \in {"idle", "done"}
  /\ \E m \in {"SystemdService", "LaunchdService", "UpstartService"}, c \in CycleConfigs,
        op \in {"install", "uninstall"} :
       NewCall(p, m \o "." \o op,
               [IdleCall EXCEPT !.op = op, !.entry = "manager", !.options = c, !.config = c,
                                !.mgr = m, !.trace = <<Ev("call", <<m, op>>)>>])

NextCycle ==
  \/ OperatorCopy
  \/ \E p \in CycleSlots :
       \/ RunCycle(p)
       \/ SystemdInstall(p) \/ SystemdLinger(p) \/ SystemdRender(p) \/ SystemdManual(p)
       \/ SystemdWrite(p) \/ SystemdDaemonReload(p) \/ SystemdEnable(p) \/ SystemdStart(p)
       \/ SystemdRollback(p) \/ SystemdRollbackReload(p)
       \/ SystemdUninstall(p) \/ SystemdUninstallRemove(p)
       \/ LaunchdInstall(p) \/ LaunchdMkdir(p) \/ LaunchdWrite(p)
       \/ LaunchdUninstall(p) \/ LaunchdUninstallRemove(p)
       \/ UpstartInstall(p) \/ UpstartManual(p)
       \/ UpstartUninstall(p) \/ UpstartUninstallRemove(p)

SpecCycle == Init /\ [][NextCycle]_vars

(* ------------------------------------------------- installs running concurrently *)
\* Configs of two programs that install the same name in user scope, each with a
\* command of its own.
RaceConfigs ==
  {[system |-> FALSE, name |-> "svc", home |-> EnvHOME, cmd |-> Arr(c), user |-> EnvUSER,
    cwd |-> "/srv", path |-> UndefArr, env |-> UndefArr] :
     c \in {<<"deno", "run">>, <<"deno", "task">>}}

\* The two processes that race.
Racers == {1, 2}

\* A process starts manager.install(config, false) while the other may be running.
RunInstall(p) ==
  /\ p \in Racers /\ pc[p] = "idle" /\ ncalls < MaxCalls
  /\ \E m \in {"SystemdService", "LaunchdService"}, c \in RaceConfigs :
       NewCall(p, m \o ".install",
               [IdleCall EXCEPT !.op = "install", !.entry = "manager", !.options = c,
                                !.config = c, !.mgr = m,
                                !.trace = <<Ev("call", <<m, "install">>)>>])

NextRace ==
  \E p \in Procs :
    \/ RunInstall(p)
    \/ SystemdInstall(p) \/ SystemdLinger(p) \/ SystemdRender(p) \/ SystemdWrite(p)
    \/ SystemdDaemonReload(p) \/ SystemdEnable(p) \/ SystemdStart(p)
    \/ SystemdRollback(p) \/ SystemdRollbackReload(p)
    \/ LaunchdInstall(p) \/ LaunchdMkdir(p) \/ LaunchdWrite(p)

SpecRace == Init /\ [][NextRace]_vars

(* =================================================================== claims *)
\* The trace of the call of invocation p, and its part after the manager's
\* method was entered.
TraceOf(p) == call[p].trace
MgrStart(p) ==
  LET t == TraceOf(p)
      at == {i \in 1..Len(t) : t[i].kind = "call" /\ t[i].arg = <<call[p].mgr, call[p].op>>}
  IN IF at = {} THEN Len(t) ELSE CHOOSE i \in at : \A j \in at : i <= j
MgrTrace(p) == SubSeq(TraceOf(p), MgrStart(p) + 1, Len(TraceOf(p)))

\* A manager method of kind op is running or has ended in invocation p.
InManager(p, op) == call[p].op = op /\ call[p].mgr # Undef
\* ... and its first step (the existence check) has been taken.
PastCheck(p, op) == InManager(p, op) /\ pc[p] # call[p].mgr \o "." \o op

Ended(p) == pc[p] = "done"
ExistedBefore(p, path) == path \in DOMAIN call[p].before.fs \/ path \in call[p].before.dirs

MutationKinds == {"write", "remove", "mkdir", "mktemp"}
HasKind(t, kinds) == \E i \in 1..Len(t) : t[i].kind \in kinds
HasCall(t, name) == \E i \in 1..Len(t) : t[i].kind = "call" /\ t[i].arg = <<name>>

\* The artifact paths of a manager for a config: every scope, and the requested one.
CandidatePaths(mgr, config) ==
  CASE mgr = "SystemdService" -> {SystemdPathUser(config), SystemdPathSystem(config)}
    [] mgr = "LaunchdService" -> {LaunchdPathUser(config), LaunchdPathSystem(config)}
    [] mgr = "InitService" -> {InitScriptPath(config)}
    [] mgr = "UpstartService" -> {UpstartFilePath(config)}
    [] mgr = "WindowsService" -> {WindowsBatchPath(config)}

RequestedPath(mgr, config) ==
  CASE mgr = "SystemdService" ->
         IF config.system THEN SystemdPathSystem(config) ELSE SystemdPathUser(config)
    [] mgr = "LaunchdService" ->
         IF config.system THEN LaunchdPathSystem(config) ELSE LaunchdPathUser(config)
    [] mgr = "InitService" -> InitScriptPath(config)
    [] mgr = "UpstartService" -> UpstartFilePath(config)
    [] mgr = "WindowsService" -> WindowsBatchPath(config)

\* C1: for every manager and config, install with onlyGenerate=true leaves the
\* file system as it found it: no file written, no temporary file or directory
\* created, nothing removed.
C1_DryRunLeavesFilesystemUnchanged ==
  \A p \in Procs :
    (InManager(p, "install") /\ call[p].onlyGenerate) =>
      /\ fs = call[p].before.fs
      /\ dirs = call[p].before.dirs
      /\ ~HasKind(TraceOf(p), MutationKinds)

\* C1 witness: a dry-run install has returned on a host that already holds files.
C1_Witness ==
  \E p \in Procs :
    /\ InManager(p, "install") /\ call[p].onlyGenerate /\ Ended(p)
    /\ call[p].result.kind = "returned"
    /\ call[p].mgr = "SystemdService" /\ ~call[p].config.system
    /\ DOMAIN fs # {}

\* C2: for every manager, install (dry-run or real, either scope) ends with a
\* failure exit before rendering, writing or spawning anything whenever an
\* artifact of that name exists at any candidate path of the manager.
C2_InstallRefusesExistingArtifact ==
  \A p \in Procs :
    (PastCheck(p, "install")
       /\ \E q \in CandidatePaths(call[p].mgr, call[p].config) : ExistedBefore(p, q)) =>
      /\ Ended(p)
      /\ call[p].result.kind = "exited" /\ call[p].result.code = 1
      /\ ~HasKind(MgrTrace(p), MutationKinds \cup {"spawn", "call", "print"})
      /\ fs = call[p].before.fs /\ dirs = call[p].before.dirs /\ native = call[p].before.native

\* C2 witness: a system-scope systemd install refused because of the user-scope unit.
C2_Witness ==
  \E p \in Procs :
    /\ PastCheck(p, "install") /\ call[p].mgr = "SystemdService" /\ call[p].config.system
    /\ ExistedBefore(p, SystemdPathUser(call[p].config))
    /\ ~ExistedBefore(p, SystemdPathSystem(call[p].config))
    /\ call[p].result.kind = "exited"

\* C3: for every manager, uninstall exits non-zero, removing nothing and spawning
\* nothing, when no artifact exists at the path of the requested scope; the path
\* of the other scope is not looked at.
C3_UninstallRefusesMissingArtifact ==
  \A p \in Procs :
    (PastCheck(p, "uninstall")
       /\ ~ExistedBefore(p, RequestedPath(call[p].mgr, call[p].config))) =>
      /\ Ended(p)
      /\ call[p].result.kind = "exited" /\ call[p].result.code # 0
      /\ ~HasKind(MgrTrace(p), MutationKinds \cup {"spawn"})
      /\ \A i \in 1..Len(MgrTrace(p)) :
           MgrTrace(p)[i].kind = "exists" =>
             MgrTrace(p)[i].arg = RequestedPath(call[p].mgr, call[p].config)
      /\ fs = call[p].before.fs /\ native = call[p].before.native

\* C3 witness: a system-scope systemd uninstall refused while the user-scope unit exists.
C3_Witness ==
  \E p \in Procs :
    /\ PastCheck(p, "uninstall") /\ call[p].mgr = "SystemdService" /\ call[p].config.system
    /\ ExistedBefore(p, SystemdPathUser(call[p].config))
    /\ call[p].result.kind = "exited"

\* C4: installService with a forced manager and onlyGenerate=false throws before
\* normalisation, detection and any manager operation (nothing written, nothing
\* spawned); with onlyGenerate=true the forced manager is used and no detection runs.
C4_ForcedManagerOnlyForDryRun ==
  \A p \in Procs :
    (call[p].entry = "service" /\ call[p].op = "install" /\ pc[p] # "installService"
       /\ Truthy(call[p].force)) =>
      IF ~call[p].onlyGenerate
      THEN /\ Ended(p) /\ call[p].result.kind = "threw"
           /\ call[p].result.msg = <<"Manually selecting an init system is not possible while installing.">>
           /\ TraceOf(p) = <<>>
           /\ call[p].mgr = Undef
           /\ fs = call[p].before.fs /\ dirs = call[p].before.dirs /\ native = call[p].before.native
      ELSE /\ call[p].initSystem = call[p].force
           /\ call[p].mgr \in {Undef, ManagerFor(call[p].force)}
           /\ ~HasCall(TraceOf(p), "detectInitSystem")
           /\ ~HasKind(TraceOf(p), {"spawn", "stat"})

\* C4 witness: a real install with a forced manager has thrown.
C4_Witness ==
  \E p \in Procs :
    /\ call[p].entry = "service" /\ call[p].op = "install" /\ Ended(p)
    /\ call[p].force = "launchd" /\ ~call[p].onlyGenerate
    /\ call[p].result.kind = "threw"

\* Positions in a trace.
At(t, kind, arg) == {i \in 1..Len(t) : t[i].kind = kind /\ t[i].arg = arg}
OfKind(t, kind) == {i \in 1..Len(t) : t[i].kind = kind}
RollbackCalls(t) == At(t, "call", <<"rollback">>)
IsSystemctl(e, verb) ==
  e.kind = "spawn" /\ Len(e.arg) >= 3 /\ e.arg[1] = "systemctl" /\ e.arg[3] = verb
\* The systemctl commands install itself spawned (rollback's own come after its call).
InstallSpawns(t, verb) ==
  {i \in 1..Len(t) : IsSystemctl(t[i], verb) /\ \A r \in RollbackCalls(t) : i < r}
\* The activation commands that ended with a failure status.
ActivationFails(t) == {i \in OfKind(t, "fail") : t[i].arg[1] # "linger"}
AtMostOne(S) == Cardinality(S) <= 1

SystemdUserInstall(p) ==
  /\ InManager(p, "install") /\ call[p].mgr = "SystemdService"
  /\ ~call[p].config.system /\ ~call[p].onlyGenerate

\* C5: in a real user-scope systemd install the steps run in the order write,
\* daemon-reload, enable, start, each started only after the one before it ended
\* successfully, and after a failed step no later step runs.
C5_SystemdStepsInOrder ==
  \A p \in Procs :
    SystemdUserInstall(p) =>
      LET t == MgrTrace(p)
          W == OfKind(t, "write")
          R == InstallSpawns(t, "daemon-reload")
          E == InstallSpawns(t, "enable")
          S == InstallSpawns(t, "start")
      IN /\ AtMostOne(W) /\ AtMostOne(R) /\ AtMostOne(E) /\ AtMostOne(S)
         /\ \A w \in W : t[w].arg = SystemdPathUser(call[p].config)
         /\ \A i \in R : \E w \in W : w < i
         /\ \A i \in E : \E r \in R, k \in At(t, "ok", <<"daemonReload">>) : r < k /\ k < i
         /\ \A i \in S : \E e \in E, k \in At(t, "ok", <<"enable">>) : e < k /\ k < i
         /\ \A k \in At(t, "ok", <<"start">>) : \E i \in S : i < k
         /\ \A f \in OfKind(t, "fail") : \A j \in 1..Len(t) :
              j > f => /\ t[j].kind \notin {"write", "ok", "fail"}
                       /\ ~IsSystemctl(t[j], "enable") /\ ~IsSystemctl(t[j], "start")
                       /\ IsSystemctl(t[j], "daemon-reload") => \E r \in RollbackCalls(t) : r < j
         /\ (Ended(p) /\ call[p].result.kind = "returned") =>
              W # {} /\ R # {} /\ E # {} /\ S # {} /\ At(t, "ok", <<"start">>) # {}

\* C5 witness: a user-scope systemd install ran all four steps and returned.
C5_Witness ==
  \E p \in Procs :
    /\ SystemdUserInstall(p) /\ Ended(p) /\ call[p].result.kind = "returned"
    /\ InstallSpawns(MgrTrace(p), "start") # {}
    /\ SystemdPathUser(call[p].config) \in DOMAIN fs

SelfActivatingInstall(p) ==
  /\ InManager(p, "install") /\ ~call[p].onlyGenerate
  /\ \/ call[p].mgr = "SystemdService" /\ ~call[p].config.system
     \/ call[p].mgr = "WindowsService"

\* C6: in systemd user scope and on Windows, when an activation command fails
\* after the artifact was written, rollback is called exactly once, before the
\* error is raised; install then throws an error carrying the stderr of the
\* failed command, and never returns normally.
C6_FailedActivationRollsBackAndThrows ==
  \A p \in Procs :
    SelfActivatingInstall(p) =>
      LET t == MgrTrace(p)
          F == ActivationFails(t)
          RB == RollbackCalls(t)
      IN /\ F = {} => RB = {}
         /\ F # {} =>
              /\ AtMostOne(F) /\ Cardinality(RB) = 1
              /\ \A f \in F : /\ \E w \in OfKind(t, "write") : w < f
                              /\ \A r \in RB : f < r
              /\ call[p].result.kind \in {"none", "threw"}
              /\ Ended(p) =>
                   /\ call[p].result.kind = "threw"
                   /\ \A f \in F :
                        call[p].result.msg[Len(call[p].result.msg)] = t[f].arg[2]

\* C6 witness: a systemd install whose enable failed has thrown.
C6_Witness ==
  \E p \in Procs :
    /\ SelfActivatingInstall(p) /\ call[p].mgr = "SystemdService" /\ Ended(p)
    /\ \E f \in ActivationFails(MgrTrace(p)) : MgrTrace(p)[f].arg[1] = "enable"
    /\ call[p].result.kind = "threw"

\* The text install throws for a failed activation command.
ExpectedActivationText(mgr, step) ==
  CASE mgr = "WindowsService" -> "Failed to install service. Error: \n"
    [] step = "daemonReload" -> "Failed to reload daemon, rolled back any changes. Error: \n"
    [] step = "enable" -> "Failed to enable service, rolled back any changes. Error: \n"
    [] step = "start" -> "Failed to start service, rolled back any changes. Error: \n"

\* C7: a failure inside rollback (the artifact cannot be removed, or rollback's
\* daemon-reload fails) is logged and not raised: install still throws the
\* original activation error, which the rollback error neither replaces nor hides.
C7_RollbackFailureIsOnlyLogged ==
  \A p \in Procs :
    (SelfActivatingInstall(p) /\ OfKind(MgrTrace(p), "error") # {}) =>
      LET t == MgrTrace(p)
      IN /\ Ended(p)
         /\ \A e \in OfKind(t, "error") : \E r \in RollbackCalls(t) : r < e
         /\ \E f \in ActivationFails(t) :
              call[p].result =
                Threw(<<ExpectedActivationText(call[p].mgr, t[f].arg[1]), t[f].arg[2]>>)

\* C7 witness: rollback removed the unit file, its daemon-reload failed, install threw.
C7_Witness ==
  \E p \in Procs :
    /\ SelfActivatingInstall(p) /\ call[p].mgr = "SystemdService" /\ Ended(p)
    /\ OfKind(MgrTrace(p), "error") # {} /\ OfKind(MgrTrace(p), "remove") # {}

\* C8: after a user-scope systemd install failed in an activation step and the
\* commands of rollback succeeded, the unit file is absent and every activation
\* step applied before is reversed; with enable succeeded and start failed the
\* service is no longer enabled once install has ended.
C8_RollbackReversesActivation ==
  \A p \in Procs :
    (/\ SystemdUserInstall(p) /\ Ended(p)
     /\ ActivationFails(MgrTrace(p)) # {}
     /\ OfKind(MgrTrace(p), "remove") # {} /\ OfKind(MgrTrace(p), "error") = {}) =>
      /\ call[p].path \notin DOMAIN fs
      /\ call[p].path \notin native.loaded
      /\ native.enabled \subseteq call[p].before.native.enabled
      /\ native.active \subseteq call[p].before.native.active

\* C9: in a real user-scope systemd install an empty or missing user, or a
\* failing loginctl enable-linger, aborts install with an error before the unit
\* file is written and before any systemctl command runs.
C9_LingerPreconditionAborts ==
  \A p \in Procs :
    (/\ SystemdUserInstall(p) /\ PastCheck(p, "install")
     /\ \/ ~Truthy(call[p].config.user)
        \/ \E f \in OfKind(MgrTrace(p), "fail") : MgrTrace(p)[f].arg[1] = "linger") =>
      /\ Ended(p)
      /\ call[p].result.kind \in {"threw", "exited"}
      /\ (\A q \in CandidatePaths("SystemdService", call[p].config) : ~ExistedBefore(p, q))
           => call[p].result.kind = "threw"
      /\ ~HasKind(MgrTrace(p), MutationKinds)
      /\ \A i \in OfKind(MgrTrace(p), "spawn") : MgrTrace(p)[i].arg[1] # "systemctl"
      /\ fs = call[p].before.fs /\ dirs = call[p].before.dirs
      /\ native.loaded = call[p].before.native.loaded
      /\ native.enabled = call[p].before.native.enabled
      /\ native.active = call[p].before.native.active

\* C9 witness: loginctl enable-linger failed and install threw.
C9_Witness ==
  \E p \in Procs :
    /\ SystemdUserInstall(p) /\ Ended(p) /\ call[p].result.kind = "threw"
    /\ \E f \in OfKind(MgrTrace(p), "fail") : MgrTrace(p)[f].arg[1] = "linger"

ManualInstallCase(p) ==
  /\ InManager(p, "install") /\ ~call[p].onlyGenerate
  /\ \/ call[p].mgr = "SystemdService" /\ call[p].config.system
     \/ call[p].mgr \in {"InitService", "UpstartService"}

\* C10: a real install through system-scope systemd, sysvinit/docker-init or
\* upstart writes the rendered artifact to a freshly created temporary file only:
\* the destination is not written, no command is spawned, the rest is printed.
C10_ManualInstallOnlyWritesTempFile ==
  \A p \in Procs :
    ManualInstallCase(p) =>
      LET t == MgrTrace(p)
          dest == RequestedPath(call[p].mgr, call[p].config)
          made == {t[i].arg : i \in OfKind(t, "mktemp")}
      IN /\ OfKind(t, "spawn") = {}
         /\ OfKind(t, "remove") = {} /\ OfKind(t, "mkdir") = {}
         /\ \A q \in made : IsTemp(q) /\ q \notin DOMAIN call[p].before.fs
         /\ \A i \in OfKind(t, "write") : t[i].arg \in made /\ t[i].arg # dest
         /\ \A q \in DOMAIN fs \ made : q \in DOMAIN call[p].before.fs /\ fs[q] = call[p].before.fs[q]
         /\ \A q \in DOMAIN call[p].before.fs : q \in DOMAIN fs
         /\ dirs = call[p].before.dirs /\ native = call[p].before.native
         /\ (Ended(p) /\ call[p].result.kind = "returned") =>
              /\ Cardinality(made) = 1
              /\ \A q \in made : fs[q] = ManagerGenerateConfig(call[p].env, call[p].mgr, call[p].config)
              /\ dest \notin DOMAIN fs
              /\ \E i \in OfKind(t, "print") : t[i].arg[1] = "\n  sudo cp "

\* C10 witness: a real upstart install returned with its temporary file written.
C10_Witness ==
  \E p \in Procs :
    /\ ManualInstallCase(p) /\ call[p].mgr = "UpstartService" /\ Ended(p)
    /\ call[p].result.kind = "returned"
    /\ \E q \in DOMAIN fs : IsTemp(q) /\ q \notin DOMAIN call[p].before.fs

ElevatedUninstall(p) ==
  /\ InManager(p, "uninstall")
  /\ \/ call[p].mgr = "SystemdService" /\ call[p].config.system
     \/ call[p].mgr \in {"InitService", "UpstartService"}

\* C11: for the managers and scopes that need elevation (system-scope systemd,
\* sysvinit/docker-init, upstart) uninstall never tries to remove the artifact:
\* it prints the removal runbook and the file stays in place.
C11_ElevatedUninstallOnlyPrints ==
  \A p \in Procs :
    ElevatedUninstall(p) =>
      /\ OfKind(MgrTrace(p), "remove") = {}
      /\ fs = call[p].before.fs
      /\ (Ended(p) /\ call[p].result.kind = "returned") =>
           /\ RequestedPath(call[p].mgr, call[p].config) \in DOMAIN fs
           /\ OfKind(MgrTrace(p), "print") # {}

\* A dispatcher call whose identifier has been looked up in the registry.
Dispatched(p) ==
  /\ call[p].entry = "service" /\ call[p].initSystem # Undef
  /\ pc[p] \notin {"installService", "uninstallService", "generateConfig", "detectInitSystem",
                   "ServiceManager.install", "ServiceManager.uninstall",
                   "ServiceManager.generateConfig"}

Registered == {"systemd", "sysvinit", "docker-init", "upstart", "launchd"}

\* C12: installService, uninstallService and generateConfig throw "Unsupported
\* init system" for every identifier without a registered implementation, with
\* no manager operation and no side effect; so they do when detection says openrc.
C12_UnregisteredIdentifierIsRefused ==
  \A p \in Procs :
    (Dispatched(p) /\ call[p].initSystem \notin Registered) =>
      /\ Ended(p)
      /\ call[p].result = Threw(<<"Unsupported init system: ", call[p].initSystem>>)
      /\ call[p].mgr = Undef
      /\ \A i \in 1..Len(TraceOf(p)) :
           \/ TraceOf(p)[i].kind = "call" /\ TraceOf(p)[i].arg \in {<<"prepareConfig">>, <<"detectInitSystem">>}
           \/ TraceOf(p)[i] = Ev("spawn", PsCommand)
      /\ fs = call[p].before.fs /\ dirs = call[p].before.dirs /\ native = call[p].before.native

\* C12 witness: the detector answered openrc and installService threw.
C12_Witness ==
  \E p \in Procs :
    /\ Dispatched(p) /\ call[p].op = "install" /\ ~Truthy(call[p].force)
    /\ call[p].initSystem = "openrc" /\ call[p].result.kind = "threw"

\* The identifiers detection returns on a supported host.
SupportedIdentifiers == {"systemd", "sysvinit", "upstart", "launchd", "windows", "docker-init", "dockerinit"}

\* C13: the registry holds all five built-in managers, so every identifier the
\* detector returns for a supported host resolves to an implementation; an
\* install on a Windows host is dispatched to the Windows manager.
C13_EveryDetectedIdentifierResolves ==
  \A p \in Procs :
    (Dispatched(p) /\ ~Truthy(call[p].force) /\ call[p].initSystem \in SupportedIdentifiers) =>
      /\ call[p].mgr \in Managers
      /\ call[p].initSystem = "windows" => call[p].mgr = "WindowsService"

\* An unforced dispatcher call that is past its detection step.
Detected(p) ==
  /\ call[p].entry = "service" /\ ~Truthy(call[p].force)
  /\ pc[p] \notin {"idle", "installService", "uninstallService", "generateConfig",
                   "detectInitSystem"}

\* detect has ended with the unsupported-init-system error.
DetectFailed(p) ==
  /\ Ended(p) /\ call[p].result = Threw(<<"Unsupported init system.">>)
  /\ call[p].initSystem = Undef /\ call[p].mgr = Undef

\* C14: on a host that is neither macOS nor Windows, detect classifies the PID-1
\* text by substring, in this order: "systemd" gives systemd; else "init" gives
\* upstart when /sbin/initctl is a file and /etc/init a directory and sysvinit
\* otherwise; else "openrc" gives openrc; a text with none of them is an error.
C14_DetectPrecedence ==
  \A p \in Procs :
    (Detected(p) /\ call[p].host.os = "linux") =>
      LET text == call[p].host.pid1
      IN IF Includes(text, S_systemd) THEN call[p].initSystem = "systemd"
         ELSE IF Includes(text, S_init)
           THEN call[p].initSystem =
                  (IF call[p].host.initctl /\ call[p].host.etcInit THEN "upstart" ELSE "sysvinit")
         ELSE IF Includes(text, S_openrc) THEN call[p].initSystem = "openrc"
         ELSE DetectFailed(p)

\* C14 witness: a PID-1 text holding both "systemd" and "init" was classified.
C14_Witness ==
  \E p \in Procs :
    /\ Detected(p) /\ call[p].host.pid1 = S_systemd_init /\ call[p].initSystem = "systemd"
    /\ call[p].mgr = "SystemdService"

\* C15: when the PID-1 text contains "docker-init" (and not "systemd") detect
\* returns the identifier docker-init, which the dispatcher maps to the
\* sysvinit/docker-init manager.
C15_DockerInitIdentifier ==
  \A p \in Procs :
    (/\ Detected(p) /\ call[p].host.os = "linux"
     /\ Includes(call[p].host.pid1, S_docker_init)
     /\ ~Includes(call[p].host.pid1, S_systemd)) =>
      /\ call[p].initSystem = "docker-init"
      /\ call[p].mgr \in {Undef, "InitService"}

\* The part of a call's trace that detection wrote.
DetectPart(p) ==
  LET t == TraceOf(p)
      from == CHOOSE i \in At(t, "call", <<"detectInitSystem">>) : TRUE
      later == {j \in (from + 1)..Len(t) : t[j].kind \in {"call", "exists"}}
      to == IF later = {} THEN Len(t) ELSE (CHOOSE j \in later : \A k \in later : j <= k) - 1
  IN SubSeq(t, from, to)

\* C16: on macOS detect returns launchd and on Windows it returns windows, in
\* both cases without spawning the ps probe and without touching the file system.
C16_NoProbeOnDarwinAndWindows ==
  \A p \in Procs :
    (Detected(p) /\ call[p].host.os \in {"darwin", "windows"}) =>
      /\ call[p].initSystem = (IF call[p].host.os = "darwin" THEN "launchd" ELSE "windows")
      /\ DetectPart(p) = <<Ev("call", <<"detectInitSystem">>)>>
      /\ OfKind(TraceOf(p), "spawn") = {} /\ OfKind(TraceOf(p), "stat") = {}
      /\ pc[p] \in {"ServiceManager.install", "ServiceManager.uninstall",
                    "ServiceManager.generateConfig"} =>
           fs = call[p].before.fs /\ dirs = call[p].before.dirs /\ native = call[p].before.native

\* C16 witness: detection on a macOS host has answered launchd.
C16_Witness ==
  \E p \in Procs :
    /\ Detected(p) /\ call[p].host.os = "darwin" /\ call[p].initSystem = "launchd"
    /\ pc[p] = "ServiceManager.install"

\* C17: every installService, uninstallService and generateConfig call without a
\* forced manager runs detection in that call and uses its own result, whatever
\* an earlier call detected; a call with a forced manager runs no detection.
C17_DetectionIsNeverReused ==
  \A p \in Procs :
    (call[p].entry = "service"
       /\ pc[p] \notin {"idle", "installService", "uninstallService", "generateConfig",
                        "detectInitSystem"}) =>
      IF Truthy(call[p].force)
      THEN /\ call[p].initSystem = call[p].force
           /\ At(TraceOf(p), "call", <<"detectInitSystem">>) = {}
           /\ OfKind(TraceOf(p), "spawn") = {} /\ OfKind(TraceOf(p), "stat") = {}
      ELSE /\ Cardinality(At(TraceOf(p), "call", <<"detectInitSystem">>)) = 1
           /\ call[p].initSystem = detectInitSystem(call[p].host)
           /\ call[p].host.os = "linux" => Ev("spawn", PsCommand) = DetectPart(p)[2]
           /\ call[p].mgr \in {Undef, ManagerFor(detectInitSystem(call[p].host))}

\* C17 witness: the same call was made twice; the first run detected launchd, the
\* host then answered systemd and the second run selected the systemd manager.
C17_Witness ==
  \E p \in Procs, q \in Procs :
    /\ p < q /\ Ended(p) /\ Ended(q)
    /\ call[p].op = call[q].op /\ call[p].options = call[q].options
    /\ ~Truthy(call[p].force) /\ ~Truthy(call[q].force)
    /\ call[p].mgr = "LaunchdService" /\ call[q].mgr = "SystemdService"

\* A generateConfig call made on a manager object has returned.
Generated(p) ==
  /\ Ended(p) /\ call[p].op = "generateConfig" /\ call[p].entry = "manager"
  /\ call[p].result.kind = "returned"

\* Two generateConfig calls on the same manager with the same config.
SameInput(p, q) ==
  /\ Generated(p) /\ Generated(q) /\ p # q
  /\ call[p].mgr = call[q].mgr /\ call[p].config = call[q].config

C19_OutputDependsOnlyOnConfigAndExecPath ==
  \A p, q \in Procs :
    (/\ SameInput(p, q)
     /\ call[p].env.execPath = call[q].env.execPath
     /\ call[p].env.home # call[q].env.home \/ call[p].env.cwd # call[q].env.cwd) =>
      call[p].result.value = call[q].result.value

\* The directory that holds the runtime executable.
RuntimeDirectory(execPath) ==
  CASE execPath = "/usr/bin/deno" -> "/usr/bin"
    [] execPath = "/opt/deno/bin/deno" -> "/opt/deno/bin"

\* The caller-supplied entries of a config, none when path is absent.
CallerPaths(config) == IF config.path.isArr THEN config.path.items ELSE <<>>

\* The PATH the specification asks for: caller entries in their order, then the
\* runtime directory, then {home}/.deno/bin with the home of the config.
ExpectedPath(env, config) ==
  Join(CallerPaths(config) \o <<RuntimeDirectory(env.execPath)>>, ":")
    \o <<":", config.home, "/.deno/bin">>

\* C20: for every manager, the PATH rendered by generateConfig is exactly the
\* caller-supplied path entries in their given order, then the directory of the
\* runtime executable, then {home}/.deno/bin with home taken from the config; when
\* path is absent or empty the PATH consists of the two default entries only, with
\* no extra or placeholder entry.
C20_RenderedPathIsCallerThenRuntimeThenHome ==
  \A p \in Procs :
    Generated(p) =>
      /\ Includes(call[p].result.value, ExpectedPath(call[p].env, call[p].config))
      /\ ~Includes(call[p].result.value, <<Undef>>)

\* The [Install] section of a unit that is wanted by the given target.
InstallSection(target) == "\n\n[Install]\nWantedBy=" \o target \o "\n"

\* C21: systemd generateConfig with system=true renders WantedBy=multi-user.target
\* and a User=<user> line; with system=false it renders no User= line and the
\* user-scope target WantedBy=default.target.
C21_SystemdTargetFollowsScope ==
  \A p \in Procs :
    (Generated(p) /\ call[p].mgr = "SystemdService") =>
      LET unit == call[p].result.value
      IN IF call[p].config.system
         THEN /\ Includes(unit, <<"User=", call[p].config.user>>)
              /\ unit[Len(unit)] = InstallSection("multi-user.target")
         ELSE /\ ~Includes(unit, <<"User=">>)
              /\ unit[Len(unit)] = InstallSection("default.target")

\* One env entry declared in the native syntax of a manager, the entry verbatim.
NativeDeclaration(mgr, entry) ==
  CASE mgr = "SystemdService" -> <<"Environment=">> \o EnvText(entry)
    [] mgr = "LaunchdService" ->
         <<"      <key>", entry[1], "</key>\n      <string>">> \o Join(Tail(entry), "=")
           \o <<"</string>\n">>
    [] mgr = "InitService" -> EnvText(entry) \o <<"\n">>
    [] mgr = "UpstartService" -> <<"env ">> \o EnvText(entry)
    [] mgr = "WindowsService" -> <<"set \"">> \o EnvText(entry) \o <<"\"\n">>

\* The places of a text where a piece starts.
PlacesOf(text, sub) == {i \in 1..Len(text) : MatchAt(text, sub, i)}

\* C22: for every manager, every entry of the config's env list appears in the
\* artifact rendered by generateConfig, as one declaration in the manager's native
\* syntax, verbatim and in the order given.
C22_EveryEnvEntryIsDeclared ==
  \A p \in Procs :
    (Generated(p) /\ call[p].config.env.isArr) =>
      LET entries == call[p].config.env.items
          text == call[p].result.value
          places(i) == PlacesOf(text, NativeDeclaration(call[p].mgr, entries[i]))
      IN /\ \A i \in 1..Len(entries) : Cardinality(places(i)) = 1
         /\ \A i, j \in 1..Len(entries) :
              i < j => \A a \in places(i), b \in places(j) : a < b

\* Every entry of an env list has an "=" (at least a name part and a value part).
WellFormedEnv(env) == \A i \in 1..Len(env.items) : Len(env.items[i]) >= 2

\* C23: no manager operation is ever invoked with a config whose env list contains
\* an entry without "=": every such entry makes validation fail before any manager
\* is reached, whether the request comes from the command line or from a library
\* call to installService/generateConfig.
C23_MalformedEnvNeverReachesManager ==
  \A p \in Procs :
    (call[p].entry = "service" /\ call[p].mgr # Undef) => WellFormedEnv(call[p].config.env)

\* installService or generateConfig of the library has normalised its options.
Normalised(p) ==
  /\ call[p].entry = "service" /\ call[p].op \in {"install", "generateConfig"}
  /\ call[p].config # NoConfig

\* C24: the config normalizer never fails and, for every raw options record,
\* returns a config with system defaulted to false, name defaulted to
\* "deno-service", and home, user and cwd taken from the environment (HOME, USER,
\* current directory) whenever the caller did not supply them, including when the
\* caller omits the field altogether.
C24_NormalizerFillsEveryDefault ==
  \A p \in Procs :
    Normalised(p) =>
      LET options == call[p].options
          config == call[p].config
      IN /\ config.system = (IF "system" \in DOMAIN options THEN options.system ELSE FALSE)
         /\ config.name = OrElse(Get(options, "name"), "deno-service")
         /\ config.home = OrElse(Get(options, "home"), EnvHOME)
         /\ config.user = OrElse(Get(options, "user"), EnvUSER)
         /\ config.cwd = OrElse(Get(options, "cwd"), ProcessCwd)

\* C25: neither the normalizer nor any manager operation (generateConfig, install,
\* uninstall) modifies the options or config object, or its path and env lists,
\* that the caller passed in: after any call the caller's record has the same
\* field values as before.
C25_CallerRecordIsNeverModified ==
  [][\A p \in Procs :
       pc[p] \notin {"idle", "done"} =>
         /\ call'[p].options = call[p].options
         /\ call[p].mgr # Undef => call'[p].config = call[p].config]_vars

\* A library call that carried a path list and an env list went through the
\* normalizer and a manager operation and returned.
C25_Witness ==
  \E p \in Procs :
    /\ Ended(p) /\ call[p].entry = "service" /\ call[p].mgr # Undef
    /\ call[p].result.kind = "returned"
    /\ call[p].options.path.isArr /\ Len(call[p].options.path.items) > 0
    /\ call[p].options.env.isArr /\ Len(call[p].options.env.items) > 0

\* C26: when installService or uninstallService is called as a library function,
\* every fatal outcome, including "artifact already exists" on install and
\* "artifact does not exist" on uninstall, reaches the caller as a raised error or
\* rejected promise and never terminates the calling process.
C26_LibraryCallNeverExitsTheProcess ==
  \A p \in Procs :
    (Ended(p) /\ call[p].entry = "service" /\ call[p].op \in {"install", "uninstall"}) =>
      call[p].result.kind \in {"returned", "threw"}

\* C27: a system-scope systemd install whose user cannot be resolved (user absent
\* or empty in the config) fails with a descriptive error and renders or writes no
\* unit file, rather than producing a unit with an empty or placeholder User= value.
C27_SystemScopeInstallRequiresUser ==
  \A p \in Procs :
    (/\ InManager(p, "install") /\ call[p].mgr = "SystemdService"
     /\ call[p].config.system /\ ~Truthy(call[p].config.user)) =>
      /\ ~HasCall(MgrTrace(p), "generateConfig")
      /\ ~HasKind(MgrTrace(p), {"write", "mktemp"})
      /\ Ended(p) => call[p].result.kind # "returned"

\* install with onlyGenerate=true has returned from its manager.
DryRunReturned(p) ==
  /\ Ended(p) /\ InManager(p, "install") /\ call[p].onlyGenerate
  /\ call[p].result.kind = "returned"

\* The texts printed by the manager operation of invocation p.
Printed(p) == {MgrTrace(p)[i].arg : i \in OfKind(MgrTrace(p), "print")}

\* C28: the output printed by install with onlyGenerate=true contains the dry-run
\* notice, the target path of the requested scope (for systemd user scope
\* {home}/.config/systemd/user/{name}.service), and the complete artifact text
\* equal to what generateConfig returns for the same config.
C28_DryRunPrintsNoticePathAndArtifact ==
  \A p \in Procs :
    DryRunReturned(p) =>
      LET config == call[p].config
      IN /\ \E line \in Printed(p) :
              Includes(line, <<"\nThis is a dry-run, nothing will be written to disk or installed.">>)
         /\ \E line \in Printed(p) : Includes(line, RequestedPath(call[p].mgr, config))
         /\ (call[p].mgr = "SystemdService" /\ ~config.system) =>
              \E line \in Printed(p) :
                Includes(line, <<config.home, "/.config/systemd/user", "/", config.name, ".service">>)
         /\ ManagerGenerateConfig(call[p].env, call[p].mgr, config) \in Printed(p)

\* A user-scope systemd dry-run install asked for through installService returned.
C28_Witness ==
  \E p \in Procs :
    /\ DryRunReturned(p) /\ call[p].entry = "service"
    /\ call[p].mgr = "SystemdService" /\ ~call[p].config.system

\* checkArguments has answered the record of invocation p.
Checked(p) == Ended(p) /\ call[p].op = "checkArguments"
BaseOf(p) == BaseArgumentOf(call[p].options)
\* The base argument is absent or one of install, uninstall, generate.
BaseAccepted(p) == BaseOf(p) = NoBase \/ BaseOf(p) \in {Str(v) : v \in validBaseArguments}
InvalidBaseError(p) == Threw(<<"Invalid base argument: ", BaseOf(p).text>>)
CommandError == Threw(<<"Specify a command using '--cmd'">>)
\* Neither a cmd value nor a non-empty remainder after "--" is present.
NoCommand(p) ==
  /\ call[p].options.cmd \in {Undef, ""}
  /\ ~call[p].options.rest.isArr \/ call[p].options.rest.items = <<>>

\* C29 as stated: checkArguments accepts an argument record whose base argument is
\* absent or is one of install, uninstall, generate and returns that record
\* unchanged; for any other base argument it throws "Invalid base argument: <value>".
C29_AsStated ==
  \A p \in Procs :
    Checked(p) =>
      IF BaseAccepted(p)
      THEN call[p].result = Returned(call[p].options)
      ELSE call[p].result = InvalidBaseError(p)

\* C29, amended: for a base argument other than install, uninstall, generate
\* checkArguments throws "Invalid base argument: <value>"; for a record whose base
\* argument is absent or one of the three it never throws that error, and it
\* returns the record unchanged when the command check and the env check pass too.
C29_BaseArgumentCheck ==
  \A p \in Procs :
    Checked(p) =>
      IF BaseAccepted(p)
      THEN /\ call[p].result # InvalidBaseError(p)
           /\ call[p].result.kind = "returned" => call[p].result = Returned(call[p].options)
           /\ (/\ BaseOf(p) = Str("uninstall") \/ ~NoCommand(p)
               /\ WellFormedEnv(call[p].options.env)) =>
                call[p].result = Returned(call[p].options)
      ELSE call[p].result = InvalidBaseError(p)

\* A record with the base argument install, a command and a well-formed env entry
\* was returned unchanged.
C29_Witness ==
  \E p \in Procs :
    /\ Checked(p) /\ BaseOf(p) = Str("install")
    /\ call[p].options.cmd = "deno run" /\ Len(call[p].options.env.items) > 0
    /\ call[p].result = Returned(call[p].options)

\* C30 as stated: checkArguments throws "Specify a command using '--cmd'" whenever
\* the base argument is not uninstall and neither a cmd value nor a non-empty "--"
\* remainder is present, and it never requires a command when the base argument is
\* uninstall.
C30_AsStated ==
  \A p \in Procs :
    Checked(p) =>
      IF BaseOf(p) = Str("uninstall")
      THEN call[p].result # CommandError
      ELSE NoCommand(p) => call[p].result = CommandError

\* C30, amended: checkArguments throws "Specify a command using '--cmd'" whenever
\* the base argument is absent, install or generate and neither a cmd value nor a
\* non-empty "--" remainder is present (another base argument is rejected as
\* invalid first), and it never requires a command when the base argument is
\* uninstall.
C30_CommandRequiredUnlessUninstall ==
  \A p \in Procs :
    Checked(p) =>
      /\ BaseOf(p) = Str("uninstall") => call[p].result # CommandError
      /\ (BaseOf(p) \in {NoBase, Str("install"), Str("generate")} /\ NoCommand(p)) =>
           call[p].result = CommandError
      /\ call[p].result = CommandError => NoCommand(p)

\* An install record without a command was refused with the command error.
C30_Witness ==
  \E p \in Procs :
    /\ Checked(p) /\ BaseOf(p) = Str("install") /\ NoCommand(p)
    /\ call[p].result = CommandError

\* The steps of install that write the artifact to its destination.
WriteSteps == {"SystemdService.install.write", "LaunchdService.install.write"}

\* Invocation p has written its artifact path.
Wrote(p) == At(TraceOf(p), "write", call[p].path) # {}

\* C31: the existence check and the write of install are not one atomic step and
\* no lock guards them: with two install invocations for the same name and scope
\* running concurrently, an interleaving is reachable in which both pass the
\* existence check and both write the artifact path, the later write replacing the
\* earlier one. (The formula: an install that is about to write has made its
\* existence checks earlier, in a step of their own, and the write that succeeds
\* puts its own content at the path whatever another invocation wrote there in
\* between; the witness is the interleaving.)
C31_CheckThenWriteIsNotAtomic ==
  [][\A p \in Procs :
       pc[p] \in WriteSteps =>
         /\ \A q \in CandidatePaths(call[p].mgr, call[p].config) :
              At(TraceOf(p), "exists", q) # {}
         /\ (pc'[p] # pc[p] /\ call'[p].result.kind # "threw") =>
              /\ call[p].path \in DOMAIN fs'
              /\ fs'[call[p].path] = call[p].content]_vars

\* Two installs of the same name and scope both passed the check and both wrote
\* the path; neither removed it, and the file holds what the later one wrote.
C31_Witness ==
  \E p, q \in Procs :
    /\ p # q /\ call[p].mgr = call[q].mgr /\ call[p].path = call[q].path
    /\ Wrote(p) /\ Wrote(q)
    /\ ~HasKind(TraceOf(p), {"remove"}) /\ ~HasKind(TraceOf(q), {"remove"})
    /\ call[p].content # call[q].content
    /\ call[p].path \in DOMAIN fs /\ fs[call[p].path] = call[q].content

\* C32: for all name and cmd values, the unit rendered by systemd generateConfig
\* contains the line Description=<name> (Deno Service) and the line
\* ExecStart=/bin/sh -c "<cmd>" with both values verbatim: a field value that itself
\* contains placeholder text (for example a name containing {{command}}) does not
\* capture or divert the substitution of a later placeholder.
C32_NameAndCommandAreRenderedVerbatim ==
  \A p \in Procs :
    (Generated(p) /\ call[p].mgr = "SystemdService") =>
      LET unit == call[p].result.value
          config == call[p].config
      IN /\ Includes(unit, <<"[Unit]\nDescription=", config.name,
                             " (Deno Service)\n\n[Service]\nExecStart=/bin/sh -c \"">>)
         /\ Includes(unit, <<" (Deno Service)\n\n[Service]\nExecStart=/bin/sh -c \"">>
                             \o CmdText(config.cmd)
                             \o <<"\"\nRestart=always\nRestartSec=30\nEnvironment=">>)

\* A command line run that has left main.
MainEnded(p) ==
  /\ Ended(p) /\ call[p].entry = "main"
  /\ call[p].result.kind = "exited" \/ call[p].op = "main"

\* C33: for every argument vector that contains --help or that has no base argument,
\* main prints the usage and the flag list and exits with code 0 without invoking
\* installService or uninstallService, whether or not a command was supplied.
C33_HelpOrNoVerbPrintsUsageAndExitsZero ==
  \A p \in Procs :
    (MainEnded(p) /\ (call[p].args.help \/ BaseArgumentOf(call[p].args) = NoBase)) =>
      /\ call[p].result = Exited(0, <<>>)
      /\ At(TraceOf(p), "print", <<"Usage: service [OPTIONS...]">>) # {}
      /\ At(TraceOf(p), "print", <<"General:">>) # {}
      /\ call[p].op = "main"

\* C37: uninstall reports success to its caller only if the artifact was actually
\* removed: when removing the file fails the operation raises an error or exits
\* non-zero, so the command line never exits with code 0 while the artifact is
\* still present.
C37_ExitZeroAfterUninstallMeansRemoved ==
  \A p \in Procs :
    (/\ MainEnded(p) /\ call[p].op = "uninstall"
     /\ call[p].mgr \in {"SystemdService", "LaunchdService", "UpstartService", "WindowsService"}
     /\ call[p].result = Exited(0, <<>>)) =>
      /\ ~Exists(RequestedPath(call[p].mgr, call[p].config))
      /\ At(TraceOf(p), "remove", RequestedPath(call[p].mgr, call[p].config)) # {}

\* A command line run of install or generate whose arguments passed the check and
\* did not ask for help, once main is past its first step.
InstallRequested(p) ==
  /\ call[p].entry = "main" /\ pc[p] # "main"
  /\ BaseArgumentOf(call[p].args) \in {Str("install"), Str("generate")}
  /\ ~call[p].args.help /\ Truthy(call[p].args.cmd)

\* The items of an optional list are all in another one, in the same order.
CarriedOver(given, passed) == given.isArr => (passed.isArr /\ Includes(passed.items, given.items))

\* C39: for an install or generate request from the command line, every --path
\* directory and every validated --env entry given by the user is contained, in the
\* order given, in the options record that main passes to installService.
C39_PathAndEnvReachInstallService ==
  \A p \in Procs :
    InstallRequested(p) =>
      /\ call[p].op = "install"
      /\ CarriedOver(call[p].args.path, GetArr(call[p].options, "path"))
      /\ CarriedOver(call[p].args.env, GetArr(call[p].options, "env"))

\* The elevated sc.exe delete of a Windows uninstall ended in failure.
DeleteFailed(p) ==
  /\ call[p].mgr = "WindowsService" /\ call[p].op = "uninstall"
  /\ \E i \in OfKind(TraceOf(p), "fail") : TraceOf(p)[i].arg[1] = "delete"

\* C36: a Windows uninstall that fails because the elevated sc.exe delete fails
\* leaves the batch wrapper at {home}/.service/{name}.bat in place: the wrapper is
\* removed only after the SCM entry was deleted successfully.
C36_FailedDeleteKeepsTheWrapper ==
  \A p \in Procs :
    (Ended(p) /\ DeleteFailed(p)) =>
      /\ WindowsBatchPath(call[p].config) \in DOMAIN fs
      /\ At(TraceOf(p), "remove", WindowsBatchPath(call[p].config)) = {}

\* The native command an operation of the launchd, systemd or upstart manager leaves
\* to the operator once it has changed the artifact.
FollowUpCommand(mgr, op, config, path) ==
  CASE mgr = "LaunchdService" ->
         (IF config.system THEN <<"sudo ">> ELSE <<>>)
         \o <<IF op = "install" THEN "launchctl load " ELSE "launchctl unload ">> \o path
    [] mgr = "SystemdService" ->
         IF config.system THEN <<"sudo systemctl daemon-reload">>
         ELSE <<"systemctl --user daemon-reload">>
    [] mgr = "UpstartService" -> <<"sudo stop ", config.name>>

\* The operations C34 is about: launchd install and uninstall, systemd and upstart
\* uninstall.
PrintsFollowUp(p) ==
  \/ call[p].mgr = "LaunchdService" /\ call[p].op \in {"install", "uninstall"}
  \/ call[p].mgr \in {"SystemdService", "UpstartService"} /\ call[p].op = "uninstall"

\* The operation of invocation p has written or removed its artifact and returned.
ChangedArtifact(p) ==
  /\ Ended(p) /\ call[p].result.kind = "returned"
  /\ HasKind(MgrTrace(p), {"write", "remove"})

\* C34: the launchd manager never executes launchctl: install and uninstall only
\* print the `launchctl load` / `launchctl unload` command (prefixed with sudo in
\* system scope), and likewise the follow-up commands printed by systemd and upstart
\* uninstall (daemon-reload, stop) are never executed by the tool.
C34_FollowUpCommandsAreOnlyPrinted ==
  \A p \in Procs :
    PrintsFollowUp(p) =>
      /\ ~HasKind(MgrTrace(p), {"spawn"})
      /\ ChangedArtifact(p) =>
           FollowUpCommand(call[p].mgr, call[p].op, call[p].config, call[p].path) \in Printed(p)

\* The four operations have each printed their follow-up command: here a
\* system-scope launchd uninstall, after an install of the same plist.
C34_Witness ==
  \E p \in Procs :
    /\ PrintsFollowUp(p) /\ ChangedArtifact(p)
    /\ call[p].mgr = "LaunchdService" /\ call[p].op = "uninstall" /\ call[p].config.system
    /\ (<<"sudo ", "launchctl unload ">> \o call[p].path) \in Printed(p)

\* Invocation p is the latest call, and nothing has been called since.
LatestCall(p) == ncalls > 0 /\ p = SlotOfCall(ncalls)

\* A real user-scope systemd install has returned normally.
UserInstallReturned(p) ==
  /\ Ended(p) /\ call[p].mgr = "SystemdService" /\ call[p].op = "install"
  /\ ~call[p].onlyGenerate /\ ~call[p].config.system
  /\ call[p].result.kind = "returned"

\* C35: whenever a real user-scope systemd install returns normally, the unit file
\* exists at {home}/.config/systemd/user/{name}.service with content equal to
\* generateConfig(config), linger was enabled for the user, and daemon-reload,
\* enable and start each ran exactly once and succeeded; rollback was never invoked.
C35_ReturnedUserInstallIsComplete ==
  \A p \in Procs :
    UserInstallReturned(p) =>
      LET config == call[p].config
          t == TraceOf(p)
          unit == <<config.home, "/.config/systemd/user", "/", config.name, ".service">>
      IN /\ LatestCall(p) =>
              /\ unit \in DOMAIN fs
              /\ fs[unit] = SystemdGenerateConfig(call[p].env, config)
              /\ config.user \in native.linger
         /\ Cardinality(At(t, "spawn", <<"loginctl", "enable-linger", config.user>>)) = 1
         /\ At(t, "ok", <<"linger">>) # {}
         /\ \A verb \in {"daemon-reload", "enable", "start"} :
              Cardinality({i \in 1..Len(t) : IsSystemctl(t[i], verb)}) = 1
         /\ \A step \in {"daemonReload", "enable", "start"} :
              Cardinality(At(t, "ok", <<step>>)) = 1
         /\ OfKind(t, "fail") = {}
         /\ RollbackCalls(t) = {}
         /\ ~HasKind(t, {"remove"})

\* A user-scope install has just returned and its unit file is on disk.
C35_Witness ==
  \E p \in Procs :
    /\ UserInstallReturned(p) /\ LatestCall(p)
    /\ SystemdPathUser(call[p].config) \in DOMAIN fs
    /\ call[p].config.name \in native.active

\* The record of the call before the latest one.
Previous(p) == 3 - p

\* The managers that write the artifact themselves, in the scopes they do.
WritesItself(mgr, config) ==
  \/ mgr = "SystemdService" /\ ~config.system
  \/ mgr = "LaunchdService"

\* Invocation p was a real install that wrote its artifact and returned.
InstallSucceeded(p) ==
  /\ Ended(p) /\ call[p].op = "install" /\ ~call[p].onlyGenerate
  /\ WritesItself(call[p].mgr, call[p].config)
  /\ call[p].result.kind = "returned" /\ Wrote(p)

\* Invocation p was an uninstall that removed its artifact and returned.
UninstallSucceeded(p) ==
  /\ Ended(p) /\ call[p].op = "uninstall"
  /\ WritesItself(call[p].mgr, call[p].config)
  /\ call[p].result.kind = "returned"
  /\ At(TraceOf(p), "remove", RequestedPath(call[p].mgr, call[p].config)) # {}

\* Invocation p follows invocation q directly, on the same manager and name.
Follows(p, q) ==
  /\ p \in CycleSlots /\ q = Previous(p) /\ LatestCall(p) /\ ncalls > 1
  /\ call[p].mgr = call[q].mgr /\ call[p].config.name = call[q].config.name

\* What a successful install of the artifact leaves behind: the file at the
\* requested scope path and nothing at the other one.
LeftByInstall(f, mgr, config) ==
  CandidatePaths(mgr, config) \cap DOMAIN f = {RequestedPath(mgr, config)}

\* C38: for the managers that write the artifact themselves (systemd user scope,
\* launchd), a successful install of a name followed by a successful uninstall of
\* the same name and scope leaves no artifact at either scope path, so a further
\* install of that name is accepted again; and between the install and the
\* uninstall a second install of that name is refused.
C38_InstallUninstallInstallCycle ==
  \A p \in CycleSlots :
    LET q == Previous(p)
        paths == CandidatePaths(call[p].mgr, call[p].config)
    IN /\ (Follows(p, q) /\ InstallSucceeded(q) /\ UninstallSucceeded(p)
            /\ call[p].config.system = call[q].config.system) =>
             \A path \in paths : ~Exists(path)
       /\ (Follows(p, q) /\ UninstallSucceeded(q) /\ call[p].op = "install"
            /\ LeftByInstall(call[q].before.fs, call[q].mgr, call[q].config)
            /\ PastCheck(p, "install")) =>
             /\ call[p].result.kind # "exited"
             /\ \A path \in paths : At(TraceOf(p), "exists", path) # {}
       /\ (Follows(p, q) /\ InstallSucceeded(q) /\ call[p].op = "install"
            /\ PastCheck(p, "install")) =>
             /\ call[p].result.kind = "exited" /\ call[p].result.code = 1
             /\ ~HasKind(TraceOf(p), MutationKinds \cup {"spawn"})
             /\ fs = call[p].before.fs

\* The third call of a cycle: an install that was accepted and completed after the
\* uninstall of the artifact an earlier install had left.
C38_Witness ==
  \E p \in CycleSlots :
    /\ ncalls = 3 /\ Follows(p, Previous(p))
    /\ UninstallSucceeded(Previous(p))
    /\ LeftByInstall(call[Previous(p)].before.fs, call[p].mgr, call[p].config)
    /\ InstallSucceeded(p)

====
